---- MODULE Spec2Model ----
(***************************************************************************)
(* A model of UseCaseValidator (src/utils/use_case_validator.py): the      *)
(* extraction of use-case records from free text, their keyword            *)
(* classification into the five fixed categories, the quota validation     *)
(* and the corrective prompt.                                              *)
(*                                                                         *)
(* A Python str is a sequence of one-character strings; a dict with a      *)
(* fixed key order is a function together with the sequence of its keys;   *)
(* an f-string is the sequence of its literal and formatted pieces.        *)
(*                                                                         *)
(* Scans over a text split the index range in halves, so that the depth of *)
(* evaluation grows with the logarithm of the text's length; a value used  *)
(* several times is handed on as a parameter.                              *)
(***************************************************************************)
EXTENDS Integers, Sequences, FiniteSets, TLC

VARIABLES
    pc,                 \* "idle" | "validated" | "prompted": the caller's position
    use_cases_text,     \* the argument of the last validate_use_cases call
    outcome,            \* "none" | "returned" | "raised": how that call ended
    validation_result,  \* the dict validate_use_cases returned
    prompt,             \* the string generate_enhancement_prompt returned
    caller,             \* of each concurrent caller: its position, the text it
                        \* passed, the dict and the prompt it got back
    frame,              \* the locals of each running validate_use_cases call
    returned,           \* the dicts returned so far, by the text of the call
    completed,          \* the number of calls returned so far, by text
    started,            \* the number of calls started so far
    run,                \* the generate_proposal call: its position, arguments,
                        \* the agents invoked, what they returned, the log of
                        \* the output check, the files written, the dict returned
    wrapper             \* the call of a function wrapped with retry_on_failure:
                        \* its position, max_retries, the attempt, the delay,
                        \* the invocations and sleeps so far, how it ended

callers_vars == <<caller, frame, returned, completed, started>>

vars ==
    <<pc, use_cases_text, outcome, validation_result, prompt, callers_vars, run, wrapper>>

----------------------------------------------------------------------------
(* Characters and str methods                                              *)

Digits == {"0", "1", "2", "3", "4", "5", "6", "7", "8", "9"}

Whitespace == {" ", "\n", "\t"}

IsDigit(c) == c \in Digits

IsSpace(c) == c \in Whitespace

\* membership of a character in a character class of the patterns:
\* \d, \s, [^*], [^\n]
InClass(cls, c) ==
    CASE cls = "digit" -> c \in Digits
      [] cls = "space" -> c \in Whitespace
      [] cls = "nonstar" -> c # "*"
      [] OTHER -> c # "\n"

\* str.lower() on one character
LowerChar(c) ==
    CASE c = "A" -> "a" [] c = "B" -> "b" [] c = "C" -> "c" [] c = "D" -> "d"
      [] c = "E" -> "e" [] c = "F" -> "f" [] c = "G" -> "g" [] c = "H" -> "h"
      [] c = "I" -> "i" [] c = "J" -> "j" [] c = "K" -> "k" [] c = "L" -> "l"
      [] c = "M" -> "m" [] c = "N" -> "n" [] c = "O" -> "o" [] c = "P" -> "p"
      [] c = "Q" -> "q" [] c = "R" -> "r" [] c = "S" -> "s" [] c = "T" -> "t"
      [] c = "U" -> "u" [] c = "V" -> "v" [] c = "W" -> "w" [] c = "X" -> "x"
      [] c = "Y" -> "y" [] c = "Z" -> "z" [] OTHER -> c

\* str.lower()
Lower(s) == [i \in 1..Len(s) |-> LowerChar(s[i])]

\* s[a:b] with 1-based inclusive start a and exclusive end b
Slice(s, a, b) == SubSeq(s, a, b - 1)

RECURSIVE RunEnd(_, _, _, _)
RECURSIVE RunEndRight(_, _, _, _, _)
(* The index after the run of characters of class cls that starts at lo,   *)
(* looking no further than hi: the first index in lo..hi whose character   *)
(* is not of the class, hi + 1 when there is none.                         *)
RunEnd(cls, t, lo, hi) ==
    IF lo > hi THEN lo
    ELSE IF lo = hi THEN (IF InClass(cls, t[lo]) THEN lo + 1 ELSE lo)
    ELSE RunEndRight(cls, t, (lo + hi) \div 2, hi, RunEnd(cls, t, lo, (lo + hi) \div 2))

RunEndRight(cls, t, mid, hi, l) ==
    IF l <= mid THEN l ELSE RunEnd(cls, t, mid + 1, hi)

RECURSIVE RunBegin(_, _, _, _)
RECURSIVE RunBeginLeft(_, _, _, _, _)
(* The index at which the run of characters of class cls that ends at hi   *)
(* begins, looking no further back than lo: hi + 1 when the character at   *)
(* hi is not of the class.                                                 *)
RunBegin(cls, t, lo, hi) ==
    IF lo > hi THEN hi + 1
    ELSE IF lo = hi THEN (IF InClass(cls, t[lo]) THEN lo ELSE lo + 1)
    ELSE RunBeginLeft(cls, t, lo, (lo + hi) \div 2, RunBegin(cls, t, (lo + hi) \div 2 + 1, hi))

RunBeginLeft(cls, t, lo, mid, r) ==
    IF r > mid + 1 THEN r ELSE RunBegin(cls, t, lo, mid)

\* the slice of s between its leading whitespace (ending before a) and its
\* trailing whitespace
StripFrom(s, a) == SubSeq(s, a, RunBegin("space", s, a, Len(s)) - 1)

\* str.strip()
Strip(s) == StripFrom(s, RunEnd("space", s, 1, Len(s)))

\* Contains for whole words only: the needle between spaces or the ends
Contains_Mut(hay, needle) ==
    \E i \in 1..(Len(hay) - Len(needle) + 1) :
        /\ \A j \in 1..Len(needle) : hay[i + j - 1] = needle[j]
        /\ i = 1 \/ hay[i - 1] = " "
        /\ i + Len(needle) > Len(hay) \/ hay[i + Len(needle)] = " "

\* `needle in hay` for two strs
Contains(hay, needle) ==
    \E i \in 1..(Len(hay) - Len(needle) + 1) :
        \A j \in 1..Len(needle) : hay[i + j - 1] = needle[j]

RECURSIVE SplitFrom(_, _)
RECURSIVE SplitAt(_, _, _)
\* the lines of s from index a on
SplitFrom(s, a) == SplitAt(s, a, RunEnd("nonnewline", s, a, Len(s)))

\* the line from a to the newline at e (or to the end of s), and the lines after it
SplitAt(s, a, e) ==
    IF e > Len(s) THEN << Slice(s, a, e) >>
    ELSE << Slice(s, a, e) >> \o SplitFrom(s, e + 1)

\* text.split('\n')
SplitLines(s) == SplitFrom(s, 1)

----------------------------------------------------------------------------
(* The regular expressions of _extract_use_cases, as Python's re matches   *)
(* them (flags DOTALL | IGNORECASE change nothing: no '.', no letters).    *)

\* \d+ from i, greedy: the index after the run of digits starting at i
DigitsEnd(t, i) == RunEnd("digit", t, i, Len(t))

\* \s* from i, greedy
SpaceEnd(t, i) == RunEnd("space", t, i, Len(t))

\* [^*]+ from i, greedy
NonStarEnd(t, i) == RunEnd("nonstar", t, i, Len(t))

\* [^\n]+ from i, greedy: the index of the next newline (Len(t)+1 if none)
LineEnd(t, i) == RunEnd("nonnewline", t, i, Len(t))

CharAt(t, i, c) == i <= Len(t) /\ t[i] = c

\* \*\* at i
StarsAt(t, i) == CharAt(t, i, "*") /\ CharAt(t, i + 1, "*")

\* ## at i
HashesAt(t, i) == CharAt(t, i, "#") /\ CharAt(t, i + 1, "#")

\* \. at j, the index after a run of digits that started at i
DotAfter(t, i, j) == j > i /\ CharAt(t, j, ".")

\* \d+\. at i
NumberAt(t, i) == DotAfter(t, i, DigitsEnd(t, i))

\* \.\s*\*\* at j, the index after a run of digits that started at i
BoldAfter(t, i, j) == DotAfter(t, i, j) /\ StarsAt(t, SpaceEnd(t, j + 1))

\* \d+\.\s*\*\* at i
BoldNumberAt(t, i) == BoldAfter(t, i, DigitsEnd(t, i))

\* the lookahead of pattern k at p: (?=\d+\.\s*\*\*|\Z), (?=\d+\.|\Z), (?=##|\Z)
Ahead(k, t, p) ==
    \/ p > Len(t)
    \/ k = 1 /\ BoldNumberAt(t, p)
    \/ k = 2 /\ NumberAt(t, p)
    \/ k = 3 /\ HashesAt(t, p)

\* the character at p is outside the class of pattern k's third group:
\* [^0-9] for the first two patterns, [^#] for the third
Blocked(k, t, p) ==
    p <= Len(t) /\ IF k = 3 THEN t[p] = "#" ELSE IsDigit(t[p])

RECURSIVE LazyStop(_, _, _, _)
RECURSIVE LazyStopRight(_, _, _, _, _)
(* The first index in lo..hi at which the lazy third group of pattern k    *)
(* stops growing: its lookahead holds there, or the character there is     *)
(* outside its class; hi + 1 when there is none.                           *)
LazyStop(k, t, lo, hi) ==
    IF lo > hi THEN lo
    ELSE IF lo = hi THEN (IF Ahead(k, t, lo) \/ Blocked(k, t, lo) THEN lo ELSE lo + 1)
    ELSE LazyStopRight(k, t, (lo + hi) \div 2, hi, LazyStop(k, t, lo, (lo + hi) \div 2))

LazyStopRight(k, t, mid, hi, l) ==
    IF l <= mid THEN l ELSE LazyStop(k, t, mid + 1, hi)

\* p if the lookahead of pattern k holds at p, 0 otherwise
IfAhead(k, t, p) == IF Ahead(k, t, p) THEN p ELSE 0

(* The lazy third group followed by its lookahead, from p on: the first    *)
(* index at which the lookahead holds, every character before it being of  *)
(* the group's class; 0 when a character outside the class comes first.    *)
LazyBody(k, t, p) == IfAhead(k, t, LazyStop(k, t, p, Len(t)))

NoMatch == [ok |-> FALSE, number |-> <<>>, title |-> <<>>, description |-> <<>>, end |-> 0]

\* the match that ends at p (0: the third group did not match)
MatchEnding(t, number, title, q, p) ==
    IF p # 0
    THEN [ok |-> TRUE, number |-> number, title |-> title,
          description |-> Slice(t, q, p), end |-> p]
    ELSE NoMatch

\* \s*([^0-9]*?)(?=...) of the first pattern, \s* having matched up to q
BoldBody(t, number, title, q) == MatchEnding(t, number, title, q, LazyBody(1, t, q))

\* ([^*]+)\*\*... of the first pattern, the title running from a to b
BoldTitle(t, number, a, b) ==
    IF b > a /\ StarsAt(t, b)
    THEN BoldBody(t, number, Slice(t, a, b), SpaceEnd(t, b + 2))
    ELSE NoMatch

\* \s*\*\*... of the first pattern, \s* having matched up to s
BoldStars(t, number, s) ==
    IF StarsAt(t, s) THEN BoldTitle(t, number, s + 2, NonStarEnd(t, s + 2)) ELSE NoMatch

\* (\d+)\. ... of the first pattern, the digits running from i to j
BoldNumber(t, i, j) ==
    IF DotAfter(t, i, j) THEN BoldStars(t, Slice(t, i, j), SpaceEnd(t, j + 1)) ELSE NoMatch

\* r'(\d+)\.\s*\*\*([^*]+)\*\*\s*([^0-9]*?)(?=\d+\.\s*\*\*|\Z)' matched at i
MatchBold(t, i) == BoldNumber(t, i, DigitsEnd(t, i))

\* ([^\n]+)\n and the third group's match: the title running from s to the
\* newline at e
TitleEnding(k, t, number, s, e) ==
    IF e > s /\ e <= Len(t)
    THEN MatchEnding(t, number, Slice(t, s, e), e + 1, LazyBody(k, t, e + 1))
    ELSE NoMatch

RECURSIVE TitleLine(_, _, _, _, _)
RECURSIVE TitleRetry(_, _, _, _, _, _)
(* \s*([^\n]+)\n followed by the third group, with \s* backtracking from   *)
(* its longest match (ending before s) down to the empty one (ending       *)
(* before s0): the first split for which the rest of the pattern matches.  *)
TitleLine(k, t, number, s0, s) ==
    TitleRetry(k, t, number, s0, s, TitleEnding(k, t, number, s, LineEnd(t, s)))

TitleRetry(k, t, number, s0, s, m) ==
    IF m.ok THEN m
    ELSE IF s > s0 THEN TitleLine(k, t, number, s0, s - 1)
    ELSE NoMatch

\* (\d+)\.\s*([^\n]+)\n ... of the second and third patterns, the digits
\* running from i to j
TitleNumber(k, t, i, j) ==
    IF DotAfter(t, i, j)
    THEN TitleLine(k, t, Slice(t, i, j), j + 1, SpaceEnd(t, j + 1))
    ELSE NoMatch

\* r'(\d+)\.\s*([^\n]+)\n([^0-9]*?)(?=\d+\.|\Z)' matched at i
MatchPlain(t, i) == TitleNumber(2, t, i, DigitsEnd(t, i))

\* \s*(\d+)... of the third pattern, \s* having matched up to a
MarkdownNumber(t, a) == TitleNumber(3, t, a, DigitsEnd(t, a))

\* r'##\s*(\d+)\.\s*([^\n]+)\n([^#]*?)(?=##|\Z)' matched at i
MatchMarkdown(t, i) ==
    IF HashesAt(t, i) THEN MarkdownNumber(t, SpaceEnd(t, i + 2)) ELSE NoMatch

\* pattern k of `patterns` matched at i
MatchAt(k, t, i) ==
    CASE k = 1 -> MatchBold(t, i)
      [] k = 2 -> MatchPlain(t, i)
      [] OTHER -> MatchMarkdown(t, i)

\* the first character of every match of pattern k: '#' for the third
\* pattern, a digit for the first two
StartsAt(k, t, i) == IF k = 3 THEN t[i] = "#" ELSE IsDigit(t[i])

\* whether pattern k matches at i
MatchesAt(k, t, i) == StartsAt(k, t, i) /\ MatchAt(k, t, i).ok

RECURSIVE NextMatch(_, _, _, _)
RECURSIVE NextMatchRight(_, _, _, _, _)
\* the leftmost index in lo..hi at which pattern k matches, hi + 1 when there
\* is none
NextMatch(k, t, lo, hi) ==
    IF lo > hi THEN lo
    ELSE IF lo = hi THEN (IF MatchesAt(k, t, lo) THEN lo ELSE lo + 1)
    ELSE NextMatchRight(k, t, (lo + hi) \div 2, hi, NextMatch(k, t, lo, (lo + hi) \div 2))

NextMatchRight(k, t, mid, hi, l) ==
    IF l <= mid THEN l ELSE NextMatch(k, t, mid + 1, hi)

RECURSIVE FindAllFrom(_, _, _)
RECURSIVE FindAllAt(_, _, _)
RECURSIVE FindAllAfter(_, _, _)
\* re.findall from index i on: leftmost matches, each search resuming at
\* the end of the previous match
FindAllFrom(k, t, i) == FindAllAt(k, t, NextMatch(k, t, i, Len(t)))

FindAllAt(k, t, i) ==
    IF i > Len(t) THEN <<>> ELSE FindAllAfter(k, t, MatchAt(k, t, i))

FindAllAfter(k, t, m) == <<m>> \o FindAllFrom(k, t, m.end)

\* re.findall(patterns[k], text, re.DOTALL | re.IGNORECASE)
FindAll(k, t) == FindAllFrom(k, t, 1)

----------------------------------------------------------------------------
(* _extract_use_cases                                                      *)

\* the use_case dict built from one findall match (title and description stripped)
UseCaseOfMatch(m) ==
    [number |-> m.number, title |-> Strip(m.title),
     description |-> Strip(m.description)]

\* UseCasesOfMatches with the last match first
UseCasesOfMatches_Mut(matches) ==
    [n \in 1..Len(matches) |-> UseCaseOfMatch(matches[Len(matches) + 1 - n])]

\* the `for match in matches` loop
UseCasesOfMatches(matches) ==
    [n \in 1..Len(matches) |-> UseCaseOfMatch(matches[n])]

RECURSIVE FirstPattern(_, _)
RECURSIVE FirstPatternWith(_, _, _)
\* the `for pattern in patterns` loop from pattern k on: the use cases of the
\* first pattern with a match (`break`), none when no pattern matches
FirstPattern(k, t) ==
    IF k > 3 THEN <<>> ELSE FirstPatternWith(k, t, FindAll(k, t))

\* FirstPatternWith without the `break`: the later patterns' matches are
\* appended too
FirstPatternWith_Mut(k, t, matches) ==
    UseCasesOfMatches(matches) \o FirstPattern(k + 1, t)

\* `if matches: ... break`
FirstPatternWith(k, t, matches) ==
    IF matches # <<>> THEN UseCasesOfMatches(matches) ELSE FirstPattern(k + 1, t)

\* IsMarker as `if line:`: every non-empty line starts a use case
IsMarker_Mut(line) == line # <<>>

\* re.match(r'^\d+\.', line)
IsMarker(line) == NumberAt(line, 1)

\* the current_case dict of a marker line whose number ends before j
CaseOfNumber(line, j) ==
    [number |-> Slice(line, 1, j),
     title |-> Slice(line, SpaceEnd(line, j + 1), Len(line) + 1),
     description |-> <<>>]

\* the current_case dict a marker line starts
CaseOfMarker(line) == CaseOfNumber(line, DigitsEnd(line, 1))

\* current_case["description"] += line + " "
AddLine(current_case, line) ==
    [current_case EXCEPT !.description = @ \o line \o <<" ">>]

RECURSIVE ScanLines(_, _, _, _)
RECURSIVE ScanLine(_, _, _, _, _)
(* The `for line in lines` loop from line n on. cases: use_cases so far;   *)
(* current: <<current_case>>, or <<>> for None. Ends with the trailing     *)
(* `if current_case: use_cases.append(current_case)`.                      *)
ScanLines(lines, n, cases, current) ==
    IF n > Len(lines) THEN cases \o current
    ELSE ScanLine(lines, n, cases, current, Strip(lines[n]))

\* the body of the loop for the stripped line
ScanLine(lines, n, cases, current, line) ==
    IF IsMarker(line)
    THEN ScanLines(lines, n + 1, cases \o current, << CaseOfMarker(line) >>)
    ELSE IF current # <<>> /\ line # <<>>
    THEN ScanLines(lines, n + 1, cases, << AddLine(current[1], line) >>)
    ELSE ScanLines(lines, n + 1, cases, current)

\* the line-by-line fallback of _extract_use_cases
SplitByLines(t) == ScanLines(SplitLines(t), 1, <<>>, <<>>)

\* `if not use_cases:` the fallback, else the use cases of the patterns
OrSplitByLines(use_cases, t) ==
    IF use_cases = <<>> THEN SplitByLines(t) ELSE use_cases

\* the body of _extract_use_cases on a str
ExtractFromStr(t) == OrSplitByLines(FirstPattern(1, t), t)

Returned(v) == [raised |-> FALSE, value |-> v, error |-> ""]

Raised(e) == [raised |-> TRUE, value |-> <<>>, error |-> e]

\* str(e) of the TypeError re.findall raises for None (CPython 3.11 and
\* later; earlier versions end the message before the comma)
TypeErrorMessage == "expected string or bytes-like object, got 'NoneType'"

\* _extract_use_cases(text): re.findall raises TypeError unless text is a str
ExtractUseCases(text) ==
    IF text.type = "str" THEN Returned(ExtractFromStr(text.value))
    ELSE Raised(TypeErrorMessage)

----------------------------------------------------------------------------
(* The class constants                                                     *)

\* the keys of REQUIRED_CATEGORIES (and of CATEGORY_KEYWORDS), in dict order
Categories ==
    << "Generative AI & LLMs", "Computer Vision", "Predictive Analytics & ML",
       "Natural Language Processing", "Automation & Optimization" >>

CategorySet == {Categories[k] : k \in 1..Len(Categories)}

\* REQUIRED_CATEGORIES[category]["min"], by position
RequiredMin == << 4, 4, 4, 2, 2 >>

\* REQUIRED_CATEGORIES[category]["max"], by position
RequiredMax == << 5, 5, 5, 3, 3 >>

\* the bounds of `total_count < 15 or total_count > 20`
TotalMin == 15

TotalMax == 20

\* CATEGORY_KEYWORDS['Generative AI & LLMs']: generative ai, llm, large language model, ...
GenerativeKeywords ==
    << <<"g", "e", "n", "e", "r", "a", "t", "i", "v", "e", " ", "a", "i">>  \* generative ai
    , <<"l", "l", "m">>  \* llm
    , <<"l", "a", "r", "g", "e", " ", "l", "a", "n", "g", "u", "a", "g", "e", " ", "m", "o", "d", "e", "l">>  \* large language model
    , <<"g", "p", "t">>  \* gpt
    , <<"c", "h", "a", "t", "b", "o", "t">>  \* chatbot
    , <<"c", "o", "n", "t", "e", "n", "t", " ", "g", "e", "n", "e", "r", "a", "t", "i", "o", "n">>  \* content generation
    , <<"t", "e", "x", "t", " ", "g", "e", "n", "e", "r", "a", "t", "i", "o", "n">>  \* text generation
    , <<"n", "a", "t", "u", "r", "a", "l", " ", "l", "a", "n", "g", "u", "a", "g", "e", " ", "g", "e", "n", "e", "r", "a", "t", "i", "o", "n">>  \* natural language generation
    , <<"c", "o", "n", "v", "e", "r", "s", "a", "t", "i", "o", "n", "a", "l", " ", "a", "i">>  \* conversational ai
    , <<"l", "a", "n", "g", "u", "a", "g", "e", " ", "m", "o", "d", "e", "l">>  \* language model
    , <<"p", "r", "o", "m", "p", "t", " ", "e", "n", "g", "i", "n", "e", "e", "r", "i", "n", "g">>  \* prompt engineering
    , <<"t", "e", "x", "t", " ", "s", "y", "n", "t", "h", "e", "s", "i", "s">>  \* text synthesis
    >>

\* CATEGORY_KEYWORDS['Computer Vision']: computer vision, image recognition, object detection, ...
VisionKeywords ==
    << <<"c", "o", "m", "p", "u", "t", "e", "r", " ", "v", "i", "s", "i", "o", "n">>  \* computer vision
    , <<"i", "m", "a", "g", "e", " ", "r", "e", "c", "o", "g", "n", "i", "t", "i", "o", "n">>  \* image recognition
    , <<"o", "b", "j", "e", "c", "t", " ", "d", "e", "t", "e", "c", "t", "i", "o", "n">>  \* object detection
    , <<"f", "a", "c", "i", "a", "l", " ", "r", "e", "c", "o", "g", "n", "i", "t", "i", "o", "n">>  \* facial recognition
    , <<"i", "m", "a", "g", "e", " ", "a", "n", "a", "l", "y", "s", "i", "s">>  \* image analysis
    , <<"v", "i", "s", "u", "a", "l", " ", "i", "n", "s", "p", "e", "c", "t", "i", "o", "n">>  \* visual inspection
    , <<"o", "c", "r">>  \* ocr
    , <<"v", "i", "d", "e", "o", " ", "a", "n", "a", "l", "y", "s", "i", "s">>  \* video analysis
    , <<"i", "m", "a", "g", "e", " ", "p", "r", "o", "c", "e", "s", "s", "i", "n", "g">>  \* image processing
    , <<"p", "a", "t", "t", "e", "r", "n", " ", "r", "e", "c", "o", "g", "n", "i", "t", "i", "o", "n">>  \* pattern recognition
    , <<"v", "i", "s", "u", "a", "l", " ", "a", "i">>  \* visual ai
    , <<"i", "m", "a", "g", "e", " ", "c", "l", "a", "s", "s", "i", "f", "i", "c", "a", "t", "i", "o", "n">>  \* image classification
    >>

\* CATEGORY_KEYWORDS['Predictive Analytics & ML']: predictive analytics, machine learning, forecasting, ...
PredictiveKeywords ==
    << <<"p", "r", "e", "d", "i", "c", "t", "i", "v", "e", " ", "a", "n", "a", "l", "y", "t", "i", "c", "s">>  \* predictive analytics
    , <<"m", "a", "c", "h", "i", "n", "e", " ", "l", "e", "a", "r", "n", "i", "n", "g">>  \* machine learning
    , <<"f", "o", "r", "e", "c", "a", "s", "t", "i", "n", "g">>  \* forecasting
    , <<"p", "r", "e", "d", "i", "c", "t", "i", "o", "n">>  \* prediction
    , <<"r", "e", "g", "r", "e", "s", "s", "i", "o", "n">>  \* regression
    , <<"c", "l", "a", "s", "s", "i", "f", "i", "c", "a", "t", "i", "o", "n">>  \* classification
    , <<"c", "l", "u", "s", "t", "e", "r", "i", "n", "g">>  \* clustering
    , <<"a", "n", "o", "m", "a", "l", "y", " ", "d", "e", "t", "e", "c", "t", "i", "o", "n">>  \* anomaly detection
    , <<"t", "i", "m", "e", " ", "s", "e", "r", "i", "e", "s">>  \* time series
    , <<"d", "e", "m", "a", "n", "d", " ", "f", "o", "r", "e", "c", "a", "s", "t", "i", "n", "g">>  \* demand forecasting
    , <<"r", "i", "s", "k", " ", "p", "r", "e", "d", "i", "c", "t", "i", "o", "n">>  \* risk prediction
    , <<"p", "r", "e", "d", "i", "c", "t", "i", "v", "e", " ", "m", "o", "d", "e", "l", "i", "n", "g">>  \* predictive modeling
    >>

\* CATEGORY_KEYWORDS['Natural Language Processing']: natural language processing, nlp, sentiment analysis, ...
LanguageKeywords ==
    << <<"n", "a", "t", "u", "r", "a", "l", " ", "l", "a", "n", "g", "u", "a", "g", "e", " ", "p", "r", "o", "c", "e", "s", "s", "i", "n", "g">>  \* natural language processing
    , <<"n", "l", "p">>  \* nlp
    , <<"s", "e", "n", "t", "i", "m", "e", "n", "t", " ", "a", "n", "a", "l", "y", "s", "i", "s">>  \* sentiment analysis
    , <<"t", "e", "x", "t", " ", "m", "i", "n", "i", "n", "g">>  \* text mining
    , <<"t", "e", "x", "t", " ", "a", "n", "a", "l", "y", "s", "i", "s">>  \* text analysis
    , <<"l", "a", "n", "g", "u", "a", "g", "e", " ", "p", "r", "o", "c", "e", "s", "s", "i", "n", "g">>  \* language processing
    , <<"t", "e", "x", "t", " ", "c", "l", "a", "s", "s", "i", "f", "i", "c", "a", "t", "i", "o", "n">>  \* text classification
    , <<"n", "a", "m", "e", "d", " ", "e", "n", "t", "i", "t", "y", " ", "r", "e", "c", "o", "g", "n", "i", "t", "i", "o", "n">>  \* named entity recognition
    , <<"t", "e", "x", "t", " ", "e", "x", "t", "r", "a", "c", "t", "i", "o", "n">>  \* text extraction
    , <<"d", "o", "c", "u", "m", "e", "n", "t", " ", "p", "r", "o", "c", "e", "s", "s", "i", "n", "g">>  \* document processing
    >>

\* CATEGORY_KEYWORDS['Automation & Optimization']: automation, optimization, process automation, ...
AutomationKeywords ==
    << <<"a", "u", "t", "o", "m", "a", "t", "i", "o", "n">>  \* automation
    , <<"o", "p", "t", "i", "m", "i", "z", "a", "t", "i", "o", "n">>  \* optimization
    , <<"p", "r", "o", "c", "e", "s", "s", " ", "a", "u", "t", "o", "m", "a", "t", "i", "o", "n">>  \* process automation
    , <<"w", "o", "r", "k", "f", "l", "o", "w", " ", "a", "u", "t", "o", "m", "a", "t", "i", "o", "n">>  \* workflow automation
    , <<"r", "o", "b", "o", "t", "i", "c", " ", "p", "r", "o", "c", "e", "s", "s", " ", "a", "u", "t", "o", "m", "a", "t", "i", "o", "n">>  \* robotic process automation
    , <<"r", "p", "a">>  \* rpa
    , <<"o", "p", "e", "r", "a", "t", "i", "o", "n", "a", "l", " ", "e", "f", "f", "i", "c", "i", "e", "n", "c", "y">>  \* operational efficiency
    , <<"r", "e", "s", "o", "u", "r", "c", "e", " ", "o", "p", "t", "i", "m", "i", "z", "a", "t", "i", "o", "n">>  \* resource optimization
    , <<"s", "u", "p", "p", "l", "y", " ", "c", "h", "a", "i", "n", " ", "o", "p", "t", "i", "m", "i", "z", "a", "t", "i", "o", "n">>  \* supply chain optimization
    , <<"b", "u", "s", "i", "n", "e", "s", "s", " ", "p", "r", "o", "c", "e", "s", "s">>  \* business process
    >>

\* CATEGORY_KEYWORDS[category], by position
CategoryKeywords ==
    << GenerativeKeywords, VisionKeywords, PredictiveKeywords, LanguageKeywords,
       AutomationKeywords >>

\* the term lists of the default categorization, in the order of the if/elif chain
DefaultTerms ==
    << << <<"c", "h", "a", "t", "b", "o", "t">>, <<"c", "o", "n", "t", "e", "n", "t">>,
          <<"g", "e", "n", "e", "r", "a", "t", "e">>, <<"l", "a", "n", "g", "u", "a", "g", "e">> >>,
       << <<"i", "m", "a", "g", "e">>, <<"v", "i", "s", "u", "a", "l">>,
          <<"v", "i", "s", "i", "o", "n">>, <<"d", "e", "t", "e", "c", "t", "i", "o", "n">> >>,
       << <<"p", "r", "e", "d", "i", "c", "t">>, <<"f", "o", "r", "e", "c", "a", "s", "t">>,
          <<"a", "n", "a", "l", "y", "t", "i", "c", "s">>, <<"m", "o", "d", "e", "l">> >>,
       << <<"t", "e", "x", "t">>, <<"d", "o", "c", "u", "m", "e", "n", "t">>,
          <<"s", "e", "n", "t", "i", "m", "e", "n", "t">> >> >>

----------------------------------------------------------------------------
(* _categorize_use_cases                                                   *)

\* full_text = (use_case["title"] + " " + use_case["description"]).lower()
FullText(use_case) == Lower(use_case.title \o <<" ">> \o use_case.description)

\* Matches counting every occurrence of a keyword
Matches_Mut(keywords, full_text) ==
    Cardinality({ p \in (1..Len(keywords)) \X (1..Len(full_text)) :
                    /\ p[2] + Len(keywords[p[1]]) - 1 <= Len(full_text)
                    /\ SubSeq(full_text, p[2], p[2] + Len(keywords[p[1]]) - 1)
                         = keywords[p[1]] })

\* sum(1 for keyword in keywords if keyword in full_text)
Matches(keywords, full_text) ==
    Cardinality({n \in 1..Len(keywords) : Contains(full_text, keywords[n])})

\* any(term in full_text for term in terms)
AnyTerm(terms, full_text) ==
    \E n \in 1..Len(terms) : Contains(full_text, terms[n])

\* Better with `>=` for `>`: the last of the best categories wins
Better_Mut(matches, max_matches) == matches >= max_matches

\* `if matches > max_matches`
Better(matches, max_matches) == matches > max_matches

RECURSIVE BestFrom(_, _, _, _)
RECURSIVE BestWith(_, _, _, _, _)
(* The `for category, keywords in CATEGORY_KEYWORDS.items()` loop from     *)
(* category k on; best = 0 stands for best_category = None.                *)
BestFrom(k, full_text, best, max_matches) ==
    IF k > Len(Categories) THEN [best_category |-> best, max_matches |-> max_matches]
    ELSE BestWith(k, full_text, best, max_matches, Matches(CategoryKeywords[k], full_text))

\* the body of the loop for category k's number of matches
BestWith(k, full_text, best, max_matches, matches) ==
    IF Better(matches, max_matches)
    THEN BestFrom(k + 1, full_text, k, matches)
    ELSE BestFrom(k + 1, full_text, best, max_matches)

\* DefaultCategory with the Computer Vision terms tested first
DefaultCategory_Mut(full_text) ==
    IF AnyTerm(DefaultTerms[2], full_text) THEN 2
    ELSE IF AnyTerm(DefaultTerms[1], full_text) THEN 1
    ELSE IF AnyTerm(DefaultTerms[3], full_text) THEN 3
    ELSE IF AnyTerm(DefaultTerms[4], full_text) THEN 4
    ELSE 5

\* the else branch: the default categorization of a text no keyword matched;
\* the position of the category whose counter is incremented
DefaultCategory(full_text) ==
    IF AnyTerm(DefaultTerms[1], full_text) THEN 1
    ELSE IF AnyTerm(DefaultTerms[2], full_text) THEN 2
    ELSE IF AnyTerm(DefaultTerms[3], full_text) THEN 3
    ELSE IF AnyTerm(DefaultTerms[4], full_text) THEN 4
    ELSE 5

\* IncrementsOf without its else branch: an unmatched use case is not counted
IncrementsOf_NoElse(full_text, b) ==
    IF b.best_category # 0 /\ b.max_matches > 0 THEN {b.best_category} ELSE {}

\* IncrementsOf with the else branch run after the if branch as well
IncrementsOf_Both(full_text, b) ==
    IF b.best_category # 0 /\ b.max_matches > 0
    THEN {b.best_category, DefaultCategory(full_text)}
    ELSE {DefaultCategory(full_text)}

\* `if best_category and max_matches > 0: ... else: ...`: the positions of the
\* categories whose counter is incremented
IncrementsOf(full_text, b) ==
    IF b.best_category # 0 /\ b.max_matches > 0
    THEN {b.best_category}
    ELSE {DefaultCategory(full_text)}

\* the body of `for use_case in use_cases` for the use case's full_text
IncrementsFor(full_text) == IncrementsOf(full_text, BestFrom(1, full_text, 0, 0))

\* one iteration of `for use_case in use_cases`: the positions of the
\* categories whose counter the iteration increments
Increments(use_case) == IncrementsFor(FullText(use_case))

\* category_counts with the counters of the categories at the positions inc
\* incremented
Incremented(category_counts, inc) ==
    [c \in DOMAIN category_counts |->
        IF \E k \in inc : Categories[k] = c
        THEN category_counts[c] + 1 ELSE category_counts[c]]

RECURSIVE CountFrom(_, _, _)
\* the `for use_case in use_cases` loop from use case n on
CountFrom(use_cases, n, category_counts) ==
    IF n > Len(use_cases) THEN category_counts
    ELSE CountFrom(use_cases, n + 1,
             Incremented(category_counts, Increments(use_cases[n])))

\* _categorize_use_cases(use_cases)
CategorizeUseCases(use_cases) ==
    CountFrom(use_cases, 1, [c \in CategorySet |-> 0])

----------------------------------------------------------------------------
(* validate_use_cases                                                      *)

\* f"Total use cases: {validation_result['total_count']}, need 15-20"
TotalIssue(total_count) ==
    << "Total use cases: ", ToString(total_count), ", need 15-20" >>

\* f"{category}: Found {count}, need {requirements['min']}-{requirements['max']}"
CategoryIssue(k, count) ==
    << Categories[k], ": Found ", ToString(count), ", need ",
       ToString(RequiredMin[k]), "-", ToString(RequiredMax[k]) >>

\* f"Validation error: {str(e)}"
ErrorIssue(e) == << "Validation error: ", e >>

\* the validation_result dict validate_use_cases starts from
InitialResult ==
    [valid |-> FALSE, total_count |-> 0, category_counts |-> <<>>,
     missing_categories |-> <<>>, issues |-> <<>>, extracted_use_cases |-> <<>>]

\* TotalOutOfRange without the upper comparison
TotalOutOfRange_Mut(total_count) == total_count < TotalMin

\* `validation_result["total_count"] < 15 or validation_result["total_count"] > 20`
TotalOutOfRange(total_count) == total_count < TotalMin \/ total_count > TotalMax

\* CountOutOfRange with the upper comparison off by one (`>=` for `>`)
CountOutOfRange_Mut(k, count) == count < RequiredMin[k] \/ count >= RequiredMax[k]

\* CountOutOfRange without the lower comparison
CountOutOfRange_NoMin(k, count) == count > RequiredMax[k]

\* `count < requirements["min"] or count > requirements["max"]`
CountOutOfRange(k, count) == count < RequiredMin[k] \/ count > RequiredMax[k]

\* categorized.get(category, 0)
GetCount(categorized, category) ==
    IF category \in DOMAIN categorized THEN categorized[category] ELSE 0

RECURSIVE CheckCategories(_, _, _)
RECURSIVE CheckCategory(_, _, _, _)
\* the `for category, requirements in REQUIRED_CATEGORIES.items()` loop from
\* category k on
CheckCategories(k, categorized, result) ==
    IF k > Len(Categories) THEN result
    ELSE CheckCategory(k, categorized, result, GetCount(categorized, Categories[k]))

\* CheckCategory listing a category as missing only when it is below its
\* minimum
CheckCategory_Mut(k, categorized, result, count) ==
    IF CountOutOfRange(k, count)
    THEN CheckCategories(k + 1, categorized,
             [result EXCEPT !.missing_categories =
                                IF count < RequiredMin[k] THEN Append(@, Categories[k]) ELSE @,
                            !.issues = Append(@, CategoryIssue(k, count))])
    ELSE CheckCategories(k + 1, categorized, result)

\* the body of the loop for category k's count
CheckCategory(k, categorized, result, count) ==
    IF CountOutOfRange(k, count)
    THEN CheckCategories(k + 1, categorized,
             [result EXCEPT !.missing_categories = Append(@, Categories[k]),
                            !.issues = Append(@, CategoryIssue(k, count))])
    ELSE CheckCategories(k + 1, categorized, result)

\* the dict with its "issues" list extended by one issue
WithIssue(result, issue) == [result EXCEPT !.issues = Append(@, issue)]

\* validation_result["valid"] = len(validation_result["issues"]) == 0
MarkValid(result) == [result EXCEPT !.valid = (Len(result.issues) = 0)]

\* the total-count check (`if ... < 15 or ... > 20`) on the dict
CheckTotal(result) ==
    IF TotalOutOfRange(result.total_count)
    THEN WithIssue(result, TotalIssue(result.total_count))
    ELSE result

\* the checks of the try block once `categorized` is known
Checked(result, categorized) ==
    MarkValid(CheckCategories(1, categorized,
        CheckTotal([result EXCEPT !.category_counts = categorized])))

\* the try block from `validation_result["extracted_use_cases"] = extracted_cases` on
Validated(result, extracted_cases) ==
    Checked([result EXCEPT !.extracted_use_cases = extracted_cases,
                           !.total_count = Len(extracted_cases)],
            CategorizeUseCases(extracted_cases))

(* The try block once _extract_use_cases has returned or raised: the dict  *)
(* as the block left it, and whether it raised. Only _extract_use_cases    *)
(* can raise; _categorize_use_cases reads the str fields extraction built  *)
(* and the class constants.                                                *)
TryBlockWith(result, extracted) ==
    IF extracted.raised
    THEN [raised |-> TRUE, value |-> result, error |-> extracted.error]
    ELSE Returned(Validated(result, extracted.value))

\* the try block of validate_use_cases
TryBlock(text, result) == TryBlockWith(result, ExtractUseCases(text))

\* `except Exception as e`: the error is appended to the issues and the dict returned
ExceptClause(block) == Returned(WithIssue(block.value, ErrorIssue(block.error)))

\* TryExcept without the except clause: the exception leaves the method
TryExcept_Mut(block) == block

\* try: ... except Exception as e: ...
TryExcept(block) == IF block.raised THEN ExceptClause(block) ELSE block

\* validate_use_cases(use_cases_text)
ValidateUseCases(text) == TryExcept(TryBlock(text, InitialResult))

----------------------------------------------------------------------------
(* generate_enhancement_prompt                                             *)

\* IssueLines with `return` inside the loop: only the first issue is listed
IssueLines_Mut(issues, n) ==
    IF n > Len(issues) THEN <<>> ELSE << "- " >> \o issues[n] \o << "\n" >>

RECURSIVE IssueLines(_, _)
\* for issue in validation_result["issues"]: prompt += f"- {issue}\n"
IssueLines(issues, n) ==
    IF n > Len(issues) THEN <<>>
    ELSE << "- " >> \o issues[n] \o << "\n" >> \o IssueLines(issues, n + 1)

RECURSIVE CategoryLines(_)
\* for category, reqs in REQUIRED_CATEGORIES.items():
\*     prompt += f"  * {category}: {reqs['min']}-{reqs['max']} use cases\n"
CategoryLines(k) ==
    IF k > Len(Categories) THEN <<>>
    ELSE << "  * ", Categories[k], ": ", ToString(RequiredMin[k]), "-",
            ToString(RequiredMax[k]), " use cases\n" >> \o CategoryLines(k + 1)

\* ReturnsEmpty as `if not validation_result["missing_categories"]`
ReturnsEmpty_Mut(result) == result.missing_categories = <<>>

\* `if validation_result["valid"]: return ""`
ReturnsEmpty(result) == result.valid

\* generate_enhancement_prompt(validation_result)
GenerateEnhancementPrompt(result) ==
    IF ReturnsEmpty(result) THEN <<>>
    ELSE << "CRITICAL: The generated use cases do not meet requirements. Please regenerate to fix:\n\n" >>
         \o IssueLines(result.issues, 1)
         \o << "\nREQUIREMENTS:\n",
               "- Generate EXACTLY 15-20 use cases total\n",
               "- Distribute across categories as follows:\n" >>
         \o CategoryLines(1)
         \o << "\nEach use case MUST include:\n",
               "- Clear title with category keywords\n",
               "- Detailed description\n",
               "- ROI estimate\n",
               "- Implementation complexity\n",
               "- Business value\n" >>

----------------------------------------------------------------------------
(* The arguments validate_use_cases is called with                         *)

\* a str argument
Str(chars) == [type |-> "str", value |-> chars]

\* an argument that is no str
None == [type |-> "NoneType", value |-> <<>>]

\* by how much a category's count may leave its required range in DistributionTexts
Spread == 1

\* the most use cases of one single category in UniformTexts
MaxUniform == 15

\* the most words of a use case in WordTexts
MaxWords == 2

\* the most tokens of a text in TokenTexts
MaxTokens == 4

DigitChar == << "1", "2", "3", "4", "5", "6", "7", "8", "9" >>

RECURSIVE DigitsOf(_)
\* the decimal numeral of n
DigitsOf(n) ==
    IF n < 10 THEN << (IF n = 0 THEN "0" ELSE DigitChar[n]) >>
    ELSE DigitsOf(n \div 10) \o << (IF n % 10 = 0 THEN "0" ELSE DigitChar[n % 10]) >>

\* one keyword of each category, by position
CategoryWord ==
    << <<"l", "l", "m">>, <<"o", "c", "r">>,
       <<"r", "e", "g", "r", "e", "s", "s", "i", "o", "n">>,
       <<"n", "l", "p">>, <<"r", "p", "a">> >>

\* use case n as a bold numbered heading: "<n>. **<title>**\n"
BoldHeading(n, title) ==
    DigitsOf(n) \o <<".", " ", "*", "*">> \o title \o <<"*", "*", "\n">>

RECURSIVE HeadingsFrom(_, _, _, _)
\* counts[k] headings of each category k, grouped in category order and
\* numbered from 1: those from category k on, `done` of category k being out
HeadingsFrom(counts, k, done, n) ==
    IF k > Len(counts) THEN <<>>
    ELSE IF done >= counts[k] THEN HeadingsFrom(counts, k + 1, 0, n)
    ELSE BoldHeading(n, CategoryWord[k]) \o HeadingsFrom(counts, k, done + 1, n + 1)

DistributionText(counts) == HeadingsFrom(counts, 1, 0, 1)

\* the counts of category k from Spread below its minimum up to its maximum
AtMost(k) ==
    (IF RequiredMin[k] > Spread THEN RequiredMin[k] - Spread ELSE 0) .. RequiredMax[k]

\* the counts of category k from its minimum up to Spread above its maximum
AtLeast(k) == RequiredMin[k] .. (RequiredMax[k] + Spread)

\* count vectors with no category above its range, and with none below it
CountVectors ==
    { <<a, b, c, d, e>> :
        a \in AtMost(1), b \in AtMost(2), c \in AtMost(3), d \in AtMost(4), e \in AtMost(5) }
    \cup
    { <<a, b, c, d, e>> :
        a \in AtLeast(1), b \in AtLeast(2), c \in AtLeast(3), d \in AtLeast(4),
        e \in AtLeast(5) }

\* texts whose use cases spread over the categories around the required ranges
DistributionTexts == { DistributionText(counts) : counts \in CountVectors }

\* texts whose use cases all belong to one category
UniformTexts ==
    { DistributionText([j \in 1..Len(Categories) |-> IF j = k THEN n ELSE 0]) :
        k \in 1..Len(Categories), n \in 0..MaxUniform }

\* words of use-case titles: keywords, default terms, a word that matches nothing
Words ==
    { <<"l", "l", "m">>, <<"L", "L", "M">>, <<"o", "c", "r">>,
      <<"r", "e", "g", "r", "e", "s", "s", "i", "o", "n">>,
      <<"n", "l", "p">>, <<"r", "p", "a">>,
      <<"n", "a", "t", "u", "r", "a", "l", " ", "l", "a", "n", "g", "u", "a", "g", "e", " ",
        "p", "r", "o", "c", "e", "s", "s", "i", "n", "g">>,
      <<"c", "o", "n", "t", "e", "n", "t">>, <<"i", "m", "a", "g", "e">>,
      <<"m", "o", "d", "e", "l">>, <<"t", "e", "x", "t">>, <<"x">> }

RECURSIVE Join(_, _)
\* the words of ws from n on, separated by one space
Join(ws, n) ==
    IF n > Len(ws) THEN <<>>
    ELSE IF n = Len(ws) THEN ws[n]
    ELSE ws[n] \o <<" ">> \o Join(ws, n + 1)

\* texts of one bold heading whose title is up to MaxWords words
WordTexts ==
    { BoldHeading(1, Join(ws, 1)) : ws \in UNION { [1..m -> Words] : m \in 0..MaxWords } }

\* the pieces texts are put together from in TokenTexts
Tokens == { <<"1", ".">>, <<"*", "*">>, <<" ">>, <<"\n">>, <<"x">>, <<"#", "#">>, <<"7">> }

RECURSIVE Concat(_, _)
Concat(ts, n) == IF n > Len(ts) THEN <<>> ELSE ts[n] \o Concat(ts, n + 1)

\* texts of up to MaxTokens tokens
TokenTexts ==
    { Concat(ts, 1) : ts \in UNION { [1..m -> Tokens] : m \in 0..MaxTokens } }

\* the most parts of a text in PartTexts
MaxParts == 4

\* the pieces texts are put together from in PartTexts: a bold numbered
\* heading, a plain numbered title, a markdown numbered heading, a line
\* end, a body line, and two body lines of which the first is a figure
Parts ==
    { <<"2", ".", " ", "*", "*", "A", "*", "*">>,
      <<"1", ".", " ", "B">>,
      <<"#", "#", " ", "3", ".", " ", "C">>,
      <<"\n">>,
      <<"x", "\n">>,
      <<"7", "\n", "x", "\n">> }

\* texts of up to MaxParts parts
PartTexts ==
    { Concat(ps, 1) : ps \in UNION { [1..m -> Parts] : m \in 0..MaxParts } }

\* the most words of a use case in TermTexts
MaxTerms == 2

\* words of use-case titles in TermTexts: the generic terms the fallback is
\* said to test, the term "generate", a keyword alone, inside a longer word
\* and in capitals, a keyword phrase that holds a keyword of another
\* category, a keyword twice, and a word that matches nothing
TermWords ==
    { <<"g", "e", "n", "e", "r", "a", "t", "i", "v", "e">>,
      <<"c", "o", "n", "t", "e", "n", "t">>,
      <<"c", "h", "a", "t", "b", "o", "t">>,
      <<"l", "a", "n", "g", "u", "a", "g", "e">>,
      <<"i", "m", "a", "g", "e">>,
      <<"v", "i", "s", "u", "a", "l">>,
      <<"v", "i", "s", "i", "o", "n">>,
      <<"d", "e", "t", "e", "c", "t", "i", "o", "n">>,
      <<"p", "r", "e", "d", "i", "c", "t">>,
      <<"f", "o", "r", "e", "c", "a", "s", "t">>,
      <<"a", "n", "a", "l", "y", "t", "i", "c", "s">>,
      <<"m", "o", "d", "e", "l">>,
      <<"t", "e", "x", "t">>,
      <<"d", "o", "c", "u", "m", "e", "n", "t">>,
      <<"s", "e", "n", "t", "i", "m", "e", "n", "t">>,
      <<"g", "e", "n", "e", "r", "a", "t", "e">>,
      <<"l", "l", "m">>,
      <<"l", "l", "m", "s">>,
      <<"L", "L", "M">>,
      <<"t", "e", "x", "t", " ", "c", "l", "a", "s", "s", "i", "f", "i", "c", "a", "t", "i", "o", "n">>,
      <<"n", "l", "p", " ", "n", "l", "p">>,
      <<"x">> }

\* texts of one bold heading whose title is up to MaxTerms words
TermTexts ==
    { BoldHeading(1, Join(ws, 1)) : ws \in UNION { [1..m -> TermWords] : m \in 0..MaxTerms } }

\* the arguments of the text-level specification: short texts of every shape
Inputs == { Str(t) : t \in WordTexts \cup TokenTexts } \cup { None }

\* the arguments of the extraction-level specification: numbered headings
\* of the three grammars with bodies between them
ExtractInputs == { Str(t) : t \in PartTexts }

\* the arguments of the term-level specification: one use case of few words
TermInputs == { Str(t) : t \in TermTexts }

\* the arguments of the quota-level specification: texts of many use cases
QuotaInputs == { Str(t) : t \in DistributionTexts \cup UniformTexts } \cup { None }

----------------------------------------------------------------------------
(* Concurrent callers of one validator. validate_use_cases keeps all it    *)
(* works on in locals of the call (validation_result, extracted_cases,     *)
(* categorized, e) and reads the class tables; a call is a sequence of     *)
(* steps that other callers' steps may come between.                       *)

\* the callers that share the validator
Callers == {"a", "b"}

\* the most calls of validate_use_cases the callers start altogether
MaxCalls == 3

\* the texts the callers pass
CallTexts ==
    { Str(<<>>), None, Str(<<"1", ".">>),
      Str(BoldHeading(1, CategoryWord[1])),
      Str(DistributionText(<<1, 1, 0, 0, 0>>)) }

\* FrameOf with the locals kept on the shared validator: one frame for all
FrameOf_Mut(c) == "a"

\* the frame the locals of a caller's call live in: every call has its own
FrameOf(c) == c

\* NewResult with the dict kept from call to call
NewResult_Mut(previous) == previous

\* `validation_result = {...}`: a new dict, whatever dict the name was
\* bound to before
NewResult(previous) == InitialResult

\* the locals of a call before its first statement
NoLocals ==
    [use_cases_text |-> Str(<<>>), validation_result |-> InitialResult,
     categorized |-> <<>>, e |-> ""]

NoCalls ==
    /\ caller = [c \in Callers |->
                    [pc |-> "idle", text |-> Str(<<>>), got |-> InitialResult,
                     said |-> <<>>]]
    /\ frame = [c \in Callers |-> NoLocals]
    /\ returned = [text \in CallTexts |-> {}]
    /\ completed = [text \in CallTexts |-> 0]
    /\ started = 0

\* the single caller of the other specifications stays where it is
Idle == UNCHANGED <<pc, use_cases_text, outcome, validation_result, prompt, run, wrapper>>

\* the caller c is at position p of the call it runs
At(c, p) == caller[c].pc = p

\* the caller moves on to position p, the locals of its call becoming f
Step(c, p, f) ==
    /\ caller' = [caller EXCEPT ![c].pc = p]
    /\ frame' = [frame EXCEPT ![FrameOf(c)] = f]
    /\ UNCHANGED <<returned, completed, started>>
    /\ Idle

\* the call of validate_use_cases(text) and its first statement, the dict
\* literal
Call(c, text) ==
    /\ caller[c].pc \in {"idle", "returned", "prompted"}
    /\ started < MaxCalls
    /\ started' = started + 1
    /\ caller' = [caller EXCEPT ![c].pc = "try", ![c].text = text]
    /\ frame' = [frame EXCEPT ![FrameOf(c)] =
                    [use_cases_text |-> text,
                     validation_result |-> NewResult(@.validation_result),
                     categorized |-> <<>>, e |-> ""]]
    /\ UNCHANGED <<returned, completed>>
    /\ Idle

\* the locals after _extract_use_cases returned extracted_cases
Extracted(f, extracted_cases) ==
    [f EXCEPT !.validation_result =
        [@ EXCEPT !.extracted_use_cases = extracted_cases,
                  !.total_count = Len(extracted_cases)]]

\* the step from `try:` to the categorization, or to the except clause
ExtractStep(c, f, extracted) ==
    IF extracted.raised
    THEN Step(c, "except", [f EXCEPT !.e = extracted.error])
    ELSE Step(c, "categorize", Extracted(f, extracted.value))

Extract(c) ==
    /\ At(c, "try")
    /\ ExtractStep(c, frame[FrameOf(c)], ExtractUseCases(frame[FrameOf(c)].use_cases_text))

\* the locals after `categorized = ...` and the assignment of category_counts
Categorized(f, categorized) ==
    [f EXCEPT !.categorized = categorized,
              !.validation_result = [@ EXCEPT !.category_counts = categorized]]

Categorize(c) ==
    /\ At(c, "categorize")
    /\ Step(c, "check",
            Categorized(frame[FrameOf(c)],
                CategorizeUseCases(frame[FrameOf(c)].validation_result.extracted_use_cases)))

\* the locals after the checks of the total and of the categories and the
\* assignment of "valid"
CheckedLocals(f) ==
    [f EXCEPT !.validation_result =
        MarkValid(CheckCategories(1, f.categorized, CheckTotal(@)))]

Check(c) ==
    /\ At(c, "check")
    /\ Step(c, "return", CheckedLocals(frame[FrameOf(c)]))

\* the locals after the except clause
Excepted(f) ==
    [f EXCEPT !.validation_result = WithIssue(@, ErrorIssue(f.e))]

Except(c) ==
    /\ At(c, "except")
    /\ Step(c, "return", Excepted(frame[FrameOf(c)]))

\* `return validation_result`: the caller gets the dict of its call's locals
ReturnTo(c, text, result) ==
    /\ caller' = [caller EXCEPT ![c].pc = "returned", ![c].got = result]
    /\ returned' = [returned EXCEPT ![text] = @ \cup {result}]
    /\ completed' = [completed EXCEPT ![text] = @ + 1]
    /\ UNCHANGED <<frame, started>>
    /\ Idle

ReturnResult(c) ==
    /\ At(c, "return")
    /\ ReturnTo(c, caller[c].text, frame[FrameOf(c)].validation_result)

\* the caller passes the dict it got to generate_enhancement_prompt
Prompt(c) ==
    /\ At(c, "returned")
    /\ caller' = [caller EXCEPT ![c].pc = "prompted",
                                ![c].said = GenerateEnhancementPrompt(caller[c].got)]
    /\ UNCHANGED <<frame, returned, completed, started>>
    /\ Idle

NextCalls ==
    \E c \in Callers :
        \/ \E text \in CallTexts : Call(c, text)
        \/ Extract(c)
        \/ Categorize(c)
        \/ Check(c)
        \/ Except(c)
        \/ ReturnResult(c)
        \/ Prompt(c)

----------------------------------------------------------------------------
(* generate_proposal (src/ai_proposal_system.py): the checks of the        *)
(* arguments, the four agents one after the other, the consolidated        *)
(* report, the check of the output, the two files, the dict returned.      *)
(* An agent is a call of the language model: it returns a text or raises.  *)

\* str.count(needle): the occurrences of needle in hay from i on that do not
\* overlap, counted from the left
OccursAt(hay, needle, i) == SubSeq(hay, i, i + Len(needle) - 1) = needle

Occurrences(hay, needle, i) ==
    { j \in i..(Len(hay) - Len(needle) + 1) : OccursAt(hay, needle, j) }

RECURSIVE CountFromIndex(_, _, _)
RECURSIVE CountAfter(_, _, _)
CountFromIndex(hay, needle, i) == CountAfter(hay, needle, Occurrences(hay, needle, i))

CountAfter(hay, needle, found) ==
    IF found = {} THEN 0
    ELSE 1 + CountFromIndex(hay, needle,
                 (CHOOSE j \in found : \A k \in found : j <= k) + Len(needle))

Count(hay, needle) == CountFromIndex(hay, needle, 1)

\* dangerous_chars of validate_company_input; "backtick" stands for the
\* grave accent, which a TLA+ string cannot hold
DangerousChars == {"<", ">", "\"", "'", "&", ";", "(", ")", "|", "backtick", "$"}

\* valid_industries of validate_industry_input
ValidIndustries ==
    { <<"M", "a", "n", "u", "f", "a", "c", "t", "u", "r", "i", "n", "g">>,
      <<"A", "u", "t", "o", "m", "o", "t", "i", "v", "e">>,
      <<"F", "i", "n", "a", "n", "c", "e">>,
      <<"R", "e", "t", "a", "i", "l">>,
      <<"H", "e", "a", "l", "t", "h", "c", "a", "r", "e">>,
      <<"T", "e", "c", "h", "n", "o", "l", "o", "g", "y">>,
      <<"E", "n", "e", "r", "g", "y">>,
      <<"A", "g", "r", "i", "c", "u", "l", "t", "u", "r", "e">>,
      <<"T", "r", "a", "n", "s", "p", "o", "r", "t", "a", "t", "i", "o", "n">>,
      <<"E", "d", "u", "c", "a", "t", "i", "o", "n">>,
      <<"R", "e", "a", "l", " ", "E", "s", "t", "a", "t", "e">>,
      <<"E", "n", "t", "e", "r", "t", "a", "i", "n", "m", "e", "n", "t">>,
      <<"T", "e", "l", "e", "c", "o", "m", "m", "u", "n", "i", "c", "a", "t", "i", "o", "n", "s">>,
      <<"A", "e", "r", "o", "s", "p", "a", "c", "e">>,
      <<"P", "h", "a", "r", "m", "a", "c", "e", "u", "t", "i", "c", "a", "l", "s">>,
      <<"F", "o", "o", "d", " ", "&", " ", "B", "e", "v", "e", "r", "a", "g", "e">>,
      <<"C", "o", "n", "s", "t", "r", "u", "c", "t", "i", "o", "n">>,
      <<"O", "t", "h", "e", "r">> }

\* validate_company_input(company): the message of the ValidationError it
\* raises, "" when it returns
ValidateCompanyInput(company) ==
    IF company.type # "str" \/ company.value = <<>>
    THEN "Company name must be a non-empty string"
    ELSE IF Len(Strip(company.value)) < 2
    THEN "Company name must be at least 2 characters long"
    ELSE IF Len(Strip(company.value)) > 100
    THEN "Company name must be less than 100 characters"
    ELSE IF \E i \in 1..Len(company.value) : company.value[i] \in DangerousChars
    THEN "Company name contains invalid characters"
    ELSE ""

\* validate_industry_input(industry), likewise
ValidateIndustryInput(industry) ==
    IF industry.type # "str" \/ industry.value = <<>>
    THEN "Industry must be a non-empty string"
    ELSE IF industry.value \notin ValidIndustries
    THEN "Industry must be one of: ..."
    ELSE ""

\* MAX_RETRIES of the settings
MAX_RETRIES == 3

\* the least use_case_count _validate_proposal_output takes as sufficient
SufficientUseCases == 15

\* the company names passed to generate_proposal
Companies ==
    { None, Str(<<>>), Str(<<"Z">>), Str(<<"Z", "o", "h", "o">>),
      Str(<<"A", "&", "B">>), Str(<<" ", "Z", "o", "h", "o">>),
      Str([i \in 1..101 |-> "x"]) }

\* the industries passed to generate_proposal
Industries ==
    { None, Str(<<>>), Str(<<"T", "e", "c", "h">>),
      Str(<<"T", "e", "c", "h", "n", "o", "l", "o", "g", "y">>) }

\* the exceptions an agent's call of the language model ends with
AgentFailures == {"Exception"}

\* texts the use case agent returns: none, one, two and seventeen use cases
UseCaseOutputs ==
    { <<>>, BoldHeading(1, CategoryWord[1]), DistributionText(<<1, 1, 0, 0, 0>>),
      DistributionText(<<5, 4, 4, 2, 2>>) }

\* the words of a proposal that has every required element
ProposalWords ==
    << "e", "x", "e", "c", "u", "t", "i", "v", "e", " ", "s", "u", "m", "m",
      "a", "r", "y", " ", "u", "s", "e", " ", "c", "a", "s", "e", " ", "b",
      "u", "d", "g", "e", "t", " ", "r", "o", "i", " ", "i", "m", "p", "l",
      "e", "m", "e", "n", "t", "a", "t", "i", "o", "n", " ", "r", "i", "s",
      "k", " ", "z", "o", "h", "o", " ", "t", "e", "c", "h", "n", "o", "l",
      "o", "g", "y", " ", "g", "i", "t", "h", "u", "b", ".", "c", "o", "m",
      "\n" >>

RECURSIVE Repeated(_, _)
\* n copies of the text
Repeated(text, n) == IF n = 0 THEN <<>> ELSE text \o Repeated(text, n - 1)

\* texts the proposal agent returns: nothing, the use cases alone, a proposal
\* with every required element followed by the use cases, and one that
\* mentions enough use cases
ProposalOutputs ==
    { <<>>, DistributionText(<<5, 4, 4, 2, 2>>),
      ProposalWords \o DistributionText(<<5, 4, 4, 2, 2>>),
      ProposalWords \o Repeated(<<"U", "s", "e", " ", "c", "a", "s", "e", "\n">>,
                                SufficientUseCases) }

\* what an agent's call comes to: the text returned, or the exception raised
AgentOutcomes(texts) ==
    { [raised |-> FALSE, value |-> t, error |-> ""] : t \in texts }
    \cup { [raised |-> TRUE, value |-> <<>>, error |-> e] : e \in AgentFailures }

NoResult == [status |-> "none", error_type |-> "", message |-> "", paths |-> {}]

NoRun ==
    run = [pc |-> "idle", company |-> None, industry |-> None, agents |-> <<>>,
           research_findings |-> <<>>, use_cases |-> <<>>, resources |-> <<>>,
           final_proposal |-> <<>>, log |-> <<>>,
           files |-> {}, result |-> NoResult]

\* the validator and its callers stay where they are
IdleValidator ==
    UNCHANGED <<pc, use_cases_text, outcome, validation_result, prompt, callers_vars, wrapper>>

\* the dict of an except clause of generate_proposal
ErrorResult(error_type, message) ==
    [status |-> "error", error_type |-> error_type, message |-> message, paths |-> {}]

\* CaughtAs without the last clause, `except Exception`: an exception of
\* another class is caught by none
CaughtAs_Mut(error) ==
    CASE error = "ValidationError" -> "validation"
      [] error = "APIError" -> "api"
      [] OTHER -> "none"

\* the except clause an exception of the given class is caught by
CaughtAs(error) ==
    CASE error = "ValidationError" -> "validation"
      [] error = "APIError" -> "api"
      [] OTHER -> "unexpected"

\* Fail without leaving the try block: the run goes on where it was
Fail_Mut(r, error, message) ==
    [r EXCEPT !.result = ErrorResult(CaughtAs(error), message)]

\* the try block is left by an exception: the dict of the except clause is
\* returned
Fail(r, error, message) ==
    [r EXCEPT !.pc = "done", !.result = ErrorResult(CaughtAs(error), message)]

\* Validate without the check of the industry
Validate_Mut(r, company_error, industry_error) ==
    IF company_error # "" THEN Fail(r, "ValidationError", company_error)
    ELSE [r EXCEPT !.pc = "research"]

\* the checks of the arguments for the messages of the two validations
Validate(r, company_error, industry_error) ==
    IF company_error # "" THEN Fail(r, "ValidationError", company_error)
    ELSE IF industry_error # "" THEN Fail(r, "ValidationError", industry_error)
    ELSE [r EXCEPT !.pc = "research"]

\* generate_proposal(company, industry) up to the start of the workflow
start_proposal(company, industry) ==
    /\ run.pc = "idle"
    /\ run' = Validate([run EXCEPT !.company = company, !.industry = industry],
                       ValidateCompanyInput(company), ValidateIndustryInput(industry))
    /\ IdleValidator

\* the run after the agent `name` was invoked: when it returned, `field` holds
\* the text and the run is at position q
Invoked(name, field, q, o) ==
    IF o.raised
    THEN Fail([run EXCEPT !.agents = Append(@, name)], o.error, "agent failed")
    ELSE [run EXCEPT !.agents = Append(@, name), ![field] = o.value, !.pc = q]

\* research_findings = self._research_agent(company, industry)
research_agent ==
    /\ run.pc = "research"
    /\ \E o \in AgentOutcomes({<<>>}) :
          run' = Invoked("research", "research_findings", "use_cases", o)
    /\ IdleValidator

\* use_cases = self._use_case_agent(company, industry, research_findings)
use_case_agent ==
    /\ run.pc = "use_cases"
    /\ \E o \in AgentOutcomes(UseCaseOutputs) :
          run' = Invoked("use_cases", "use_cases", "resources", o)
    /\ IdleValidator

\* resources = self._resource_agent(company, industry, research_findings, use_cases)
resource_agent ==
    /\ run.pc = "resources"
    /\ \E o \in AgentOutcomes({<<>>}) :
          run' = Invoked("resources", "resources", "proposal", o)
    /\ IdleValidator

\* final_proposal = self._proposal_agent(...)
proposal_agent ==
    /\ run.pc = "proposal"
    /\ \E o \in AgentOutcomes(ProposalOutputs) :
          run' = Invoked("proposal", "final_proposal", "validate", o)
    /\ IdleValidator

\* some needle of the set occurs in the text
ContainsAny(result_str, needles) == \E n \in needles : Contains(result_str, n)

\* required_elements of _validate_proposal_output: the elements present
PresentElements(result_str, company, industry) ==
    { e \in {"executive summary", "ai use cases", "budget", "roi", "implementation",
             "risk", "company name", "industry"} :
        CASE e = "executive summary" ->
               Contains(result_str, <<"e", "x", "e", "c", "u", "t", "i", "v", "e", " ", "s", "u", "m", "m", "a", "r", "y">>)
          [] e = "ai use cases" ->
               ContainsAny(result_str, {<<"u", "s", "e", " ", "c", "a", "s", "e">>, <<"a", "i">>})
          [] e = "budget" ->
               ContainsAny(result_str, {<<"b", "u", "d", "g", "e", "t">>, <<"c", "o", "s", "t">>, <<"i", "n", "v", "e", "s", "t", "m", "e", "n", "t">>})
          [] e = "roi" ->
               ContainsAny(result_str, {<<"r", "o", "i">>, <<"r", "e", "t", "u", "r", "n", " ", "o", "n", " ", "i", "n", "v", "e", "s", "t", "m", "e", "n", "t">>})
          [] e = "implementation" ->
               ContainsAny(result_str, {<<"i", "m", "p", "l", "e", "m", "e", "n", "t", "a", "t", "i", "o", "n">>, <<"r", "o", "a", "d", "m", "a", "p">>})
          [] e = "risk" -> Contains(result_str, <<"r", "i", "s", "k">>)
          [] e = "company name" -> Contains(result_str, Lower(company))
          [] e = "industry" -> Contains(result_str, Lower(industry)) }

\* use_case_count of _validate_proposal_output
UseCaseCount(result_str) ==
    Count(result_str, <<"u", "s", "e", " ", "c", "a", "s", "e">>) + Count(result_str, <<"1", ".">>)
    + Count(result_str, <<"2", ".">>) + Count(result_str, <<"3", ".">>)

\* what _validate_proposal_output logs on the proposal
OutputLog(result_str, company, industry) ==
    (IF Cardinality(PresentElements(result_str, company, industry)) < 8
     THEN << "warning: missing required elements" >> ELSE <<>>)
    \o (IF UseCaseCount(result_str) >= SufficientUseCases
        THEN << "info: sufficient use cases" >>
        ELSE << "warning: insufficient use cases" >>)
    \o (IF ContainsAny(result_str, {<<"k", "a", "g", "g", "l", "e", ".", "c", "o", "m">>, <<"g", "i", "t", "h", "u", "b", ".", "c", "o", "m">>})
        THEN << "info: resource links" >>
        ELSE << "warning: missing resource links" >>)

\* the consolidated report and self._validate_proposal_output(final_proposal, ...)
validate_proposal_output ==
    /\ run.pc = "validate"
    /\ run' = [run EXCEPT !.pc = "save_report",
                          !.log = OutputLog(Lower(run.final_proposal),
                                            run.company.value, run.industry.value)]
    /\ IdleValidator

\* the run after the with block of a file: the file is written and the run
\* is at position q, or open or the write raised
Written(file, q, written) ==
    IF written THEN [run EXCEPT !.files = @ \cup {file}, !.pc = q]
    ELSE Fail(run, "OSError", "write failed")

\* the consolidated report is saved
save_report ==
    /\ run.pc = "save_report"
    /\ \E written \in BOOLEAN : run' = Written("consolidated_file", "save_json", written)
    /\ IdleValidator

\* the detailed JSON is saved
save_json ==
    /\ run.pc = "save_json"
    /\ \E written \in BOOLEAN : run' = Written("json_file", "return", written)
    /\ IdleValidator

\* the dict of the success return
return_success ==
    /\ run.pc = "return"
    /\ run' = [run EXCEPT !.pc = "done",
                          !.result = [status |-> "success", error_type |-> "",
                                      message |-> "", paths |-> run.files]]
    /\ IdleValidator

NextProposal ==
    \/ \E company \in Companies : \E industry \in Industries :
          start_proposal(company, industry)
    \/ research_agent
    \/ use_case_agent
    \/ resource_agent
    \/ proposal_agent
    \/ validate_proposal_output
    \/ save_report
    \/ save_json
    \/ return_success

----------------------------------------------------------------------------
(* retry_on_failure and handle_api_errors of utils/error_handling.py: one  *)
(* call of a function wrapped with retry_on_failure(max_retries), the      *)
(* function being wrapped with handle_api_errors first or not.             *)

\* the greatest max_retries a function is wrapped with
RetryLimit == 2

\* requests.exceptions.RequestException and the two subclasses the module names
RequestExceptions == { "RequestException", "Timeout", "ConnectionError" }

\* the classes of the exceptions the wrapped function raises
FuncFailures == { "APIError", "ValueError" } \cup RequestExceptions

NoException == [class |-> "None", of |-> 0, origin |-> "none"]

\* the exception of class c raised at the k-th invocation by `origin`
NewException(c, k, origin) == [class |-> c, of |-> k, origin |-> origin]

\* what one invocation comes to
ReturnedValue == [raised |-> FALSE, exception |-> NoException]

RaisedException(e) == [raised |-> TRUE, exception |-> e]

\* what the k-th invocation of the function itself comes to
FuncOutcomes(k) ==
    { ReturnedValue } \cup { RaisedException(NewException(c, k, "func")) : c \in FuncFailures }

(* The wrapper of handle_api_errors around an invocation that comes to o:  *)
(* `except requests.exceptions.RequestException` raises a new APIError,    *)
(* and catches Timeout and ConnectionError too, whose own clauses come     *)
(* after it; `except Exception` raises a new SystemError for every other   *)
(* exception, an APIError of the function among them.                      *)
HandleApiErrors(o, k) ==
    IF ~o.raised THEN o
    ELSE IF o.exception.class \in RequestExceptions
    THEN RaisedException(NewException("APIError", k, "handle_api_errors"))
    ELSE RaisedException(NewException("SystemError", k, "handle_api_errors"))

\* Retryable with every exception retried
Retryable_Mut(e) == TRUE

\* `except (APIError, requests.exceptions.RequestException)` catches e
Retryable(e) == e.class \in {"APIError"} \cup RequestExceptions

NoWrapper ==
    wrapper = [pc |-> "idle", max_retries |-> 0, handled |-> FALSE, attempt |-> 0,
               current_delay |-> 0, last_exception |-> NoException,
               invocations |-> <<>>, sleeps |-> <<>>,
               result |-> [status |-> "none", exception |-> NoException]]

\* the validator, its callers and generate_proposal stay where they are
IdleOthers ==
    UNCHANGED <<pc, use_cases_text, outcome, validation_result, prompt, callers_vars, run>>

\* wrapper(*args, **kwargs) up to the loop: last_exception = None,
\* current_delay = delay (1.0)
call_wrapper(max_retries, handled) ==
    /\ wrapper.pc = "idle"
    /\ wrapper' = [wrapper EXCEPT !.pc = "try", !.max_retries = max_retries,
                                  !.handled = handled, !.current_delay = 1]
    /\ IdleOthers

\* Handled with a sleep and a further round after every retryable failure,
\* the last one included
Handled_Mut(w, left) ==
    IF ~left.raised
    THEN [w EXCEPT !.pc = "done",
                   !.result = [status |-> "returned", exception |-> NoException]]
    ELSE IF Retryable(left.exception)
    THEN [w EXCEPT !.last_exception = left.exception, !.pc = "sleep"]
    ELSE [w EXCEPT !.pc = "done",
                   !.result = [status |-> "raised", exception |-> left.exception]]

\* the clauses of the try statement for what reached the wrapper
Handled(w, left) ==
    IF ~left.raised
    THEN [w EXCEPT !.pc = "done",
                   !.result = [status |-> "returned", exception |-> NoException]]
    ELSE IF Retryable(left.exception)
    THEN [w EXCEPT !.last_exception = left.exception,
                   !.pc = IF w.attempt < w.max_retries THEN "sleep" ELSE "raise"]
    ELSE [w EXCEPT !.pc = "done",
                   !.result = [status |-> "raised", exception |-> left.exception]]

\* the invocation that comes to o in the function and to `left` outside it
Invocation(w, o, left) ==
    Handled([w EXCEPT !.invocations = Append(@, [func |-> o, left |-> left])], left)

\* time.sleep(current_delay); current_delay *= backoff (2.0), and the next
\* round of the loop
Sleeping(w) ==
    [w EXCEPT !.sleeps = Append(@, w.current_delay),
              !.current_delay = 2 * @,
              !.attempt = @ + 1,
              !.pc = "try"]

\* `return func(*args, **kwargs)` inside the try statement of the loop
invoke_func ==
    /\ wrapper.pc = "try"
    /\ \E o \in FuncOutcomes(Len(wrapper.invocations) + 1) :
          wrapper' = Invocation(wrapper, o,
                        IF wrapper.handled
                        THEN HandleApiErrors(o, Len(wrapper.invocations) + 1)
                        ELSE o)
    /\ IdleOthers

\* the sleep between two attempts
sleep ==
    /\ wrapper.pc = "sleep"
    /\ wrapper' = Sleeping(wrapper)
    /\ IdleOthers

\* `raise last_exception` after the loop
raise_last_exception ==
    /\ wrapper.pc = "raise"
    /\ wrapper' = [wrapper EXCEPT !.pc = "done",
                      !.result = [status |-> "raised", exception |-> wrapper.last_exception]]
    /\ IdleOthers

NextRetry ==
    \/ \E max_retries \in 0..RetryLimit : \E handled \in BOOLEAN :
          call_wrapper(max_retries, handled)
    \/ invoke_func
    \/ sleep
    \/ raise_last_exception

----------------------------------------------------------------------------
(* The caller: validate_use_cases, then generate_enhancement_prompt on the *)
(* dict it returned.                                                       *)

Init ==
    /\ pc = "idle"
    /\ use_cases_text = Str(<<>>)
    /\ outcome = "none"
    /\ validation_result = InitialResult
    /\ prompt = <<>>
    /\ NoCalls
    /\ NoRun
    /\ NoWrapper

\* the caller takes what the call returned, or sees it raise
Return(text, call) ==
    /\ outcome' = IF call.raised THEN "raised" ELSE "returned"
    /\ validation_result' = IF call.raised THEN validation_result ELSE call.value
    /\ use_cases_text' = text
    /\ pc' = "validated"
    /\ UNCHANGED <<prompt, callers_vars, run, wrapper>>

validate_use_cases(text) ==
    /\ pc = "idle"
    /\ Return(text, ValidateUseCases(text))

generate_enhancement_prompt ==
    /\ pc = "validated"
    /\ outcome = "returned"
    /\ prompt' = GenerateEnhancementPrompt(validation_result)
    /\ pc' = "prompted"
    /\ UNCHANGED <<use_cases_text, outcome, validation_result, callers_vars, run, wrapper>>

Next ==
    \/ \E text \in Inputs : validate_use_cases(text)
    \/ generate_enhancement_prompt

Spec == Init /\ [][Next]_vars

NextQuota ==
    \/ \E text \in QuotaInputs : validate_use_cases(text)
    \/ generate_enhancement_prompt

SpecQuota == Init /\ [][NextQuota]_vars

NextExtract ==
    \/ \E text \in ExtractInputs : validate_use_cases(text)
    \/ generate_enhancement_prompt

SpecExtract == Init /\ [][NextExtract]_vars

NextTerms ==
    \/ \E text \in TermInputs : validate_use_cases(text)
    \/ generate_enhancement_prompt

SpecTerms == Init /\ [][NextTerms]_vars

\* concurrent callers of one validator
SpecCalls == Init /\ [][NextCalls]_vars

\* one call of generate_proposal
SpecProposal == Init /\ [][NextProposal]_vars

\* one call of a function wrapped with retry_on_failure
SpecRetry == Init /\ [][NextRetry]_vars

----------------------------------------------------------------------------
(* What the claims speak of                                                *)

\* a call of validate_use_cases has returned its dict
HasResult == pc # "idle" /\ outcome = "returned"

\* the call ended in the except clause: the only fault of the try block is
\* the TypeError of an argument that is no str
InternalError == use_cases_text.type # "str"

\* the dict of a call that ran without an internal error
NormalResult == HasResult /\ ~InternalError

\* the count a dict holds for a category, 0 for a key the dict lacks
CountIn(result, category) ==
    IF category \in DOMAIN result.category_counts
    THEN result.category_counts[category] ELSE 0

RECURSIVE SumOver(_, _)
\* the sum of f over the keys S
SumOver(f, S) ==
    IF S = {} THEN 0
    ELSE LET c == CHOOSE x \in S : TRUE IN f[c] + SumOver(f, S \ {c})

\* sum(d.values())
SumValues(d) == SumOver(d, DOMAIN d)

RECURSIVE RenderFrom(_, _)
\* the str an f-string's pieces make up
RenderFrom(pieces, n) ==
    IF n > Len(pieces) THEN "" ELSE pieces[n] \o RenderFrom(pieces, n + 1)

Render(pieces) == RenderFrom(pieces, 1)

\* the ranges the claims state, by category: Generative AI & LLMs 4-5,
\* Computer Vision 4-5, Predictive Analytics & ML 4-5, Natural Language
\* Processing 2-3, Automation & Optimization 2-3
ClaimedMin(category) ==
    CASE category = "Generative AI & LLMs" -> 4
      [] category = "Computer Vision" -> 4
      [] category = "Predictive Analytics & ML" -> 4
      [] category = "Natural Language Processing" -> 2
      [] category = "Automation & Optimization" -> 2

ClaimedMax(category) ==
    CASE category = "Generative AI & LLMs" -> 5
      [] category = "Computer Vision" -> 5
      [] category = "Predictive Analytics & ML" -> 5
      [] category = "Natural Language Processing" -> 3
      [] category = "Automation & Optimization" -> 3

\* the declared order of the categories, as the claims state it
ClaimedOrder ==
    << "Generative AI & LLMs", "Computer Vision", "Predictive Analytics & ML",
       "Natural Language Processing", "Automation & Optimization" >>

\* the dict's count of a category lies within the category's claimed range
InClaimedRange(result, category) ==
    /\ CountIn(result, category) >= ClaimedMin(category)
    /\ CountIn(result, category) <= ClaimedMax(category)

\* the dict's total_count lies within 15..20
TotalInClaimedRange(result) == result.total_count >= 15 /\ result.total_count <= 20

----------------------------------------------------------------------------
(* C1: for every result returned without an internal error, valid is true  *)
(* if and only if total_count lies in 15..20 and every category's count    *)
(* lies in its own range; 17 records spread 5/4/4/2/2 give valid = TRUE    *)
(* and no issues.                                                          *)

C1_Distribution ==
    /\ validation_result.total_count = 17
    /\ CountIn(validation_result, "Generative AI & LLMs") = 5
    /\ CountIn(validation_result, "Computer Vision") = 4
    /\ CountIn(validation_result, "Predictive Analytics & ML") = 4
    /\ CountIn(validation_result, "Natural Language Processing") = 2
    /\ CountIn(validation_result, "Automation & Optimization") = 2

C1_ValidIffQuotasMet ==
    NormalResult =>
        /\ validation_result.valid <=>
              /\ TotalInClaimedRange(validation_result)
              /\ \A n \in 1..Len(ClaimedOrder) :
                    InClaimedRange(validation_result, ClaimedOrder[n])
        /\ C1_Distribution =>
              validation_result.valid /\ validation_result.issues = <<>>

C1_Witness ==
    /\ pc = "validated"
    /\ NormalResult
    /\ C1_Distribution
    /\ validation_result.valid

----------------------------------------------------------------------------
(* C2: the counts of category_counts sum to total_count, which is the      *)
(* number of extracted records; categorizing n records yields counts that  *)
(* sum to n, all of them zero when n = 0.                                  *)

C2_Categorized == CategorizeUseCases(validation_result.extracted_use_cases)

C2_CountsSumToTotal ==
    HasResult =>
        /\ SumValues(validation_result.category_counts) = validation_result.total_count
        /\ validation_result.total_count = Len(validation_result.extracted_use_cases)
        /\ pc = "validated" =>
              /\ SumValues(C2_Categorized) = Len(validation_result.extracted_use_cases)
              /\ validation_result.extracted_use_cases = <<>> =>
                    \A c \in CategorySet : C2_Categorized[c] = 0

C2_Witness ==
    /\ pc = "validated"
    /\ NormalResult
    /\ validation_result.total_count >= 2
    /\ SumValues(validation_result.category_counts) = validation_result.total_count

----------------------------------------------------------------------------
(* C3: every returned result holds a count for each of the five            *)
(* categories. The result of a call whose argument is no str holds none.   *)

C3_AllCategoriesCounted ==
    HasResult => DOMAIN validation_result.category_counts = CategorySet

----------------------------------------------------------------------------
(* C4: issues holds exactly one entry per broken constraint: the entry of  *)
(* the total count first when total_count is outside 15..20, then, in the  *)
(* declared order, one entry per category whose count is outside its       *)
(* range, naming the category, its count and its range. As stated, for     *)
(* every returned result (C4_OneIssuePerBrokenConstraint); as it holds,    *)
(* for every result returned without an internal error                     *)
(* (C4_OneIssuePerBrokenConstraintNoError).                                *)

\* the broken constraints of a result in the order of their entries: 0 for
\* the total count, n for the n-th category of the declared order
C4_Broken(result) ==
    SelectSeq(<<0, 1, 2, 3, 4, 5>>,
              LAMBDA n : IF n = 0 THEN ~TotalInClaimedRange(result)
                         ELSE ~InClaimedRange(result, ClaimedOrder[n]))

\* the entry of a broken constraint
C4_Entry(result, n) ==
    IF n = 0
    THEN "Total use cases: " \o ToString(result.total_count) \o ", need 15-20"
    ELSE ClaimedOrder[n] \o ": Found " \o ToString(CountIn(result, ClaimedOrder[n]))
         \o ", need " \o ToString(ClaimedMin(ClaimedOrder[n])) \o "-"
         \o ToString(ClaimedMax(ClaimedOrder[n]))

C4_EntriesOf(result, broken) ==
    /\ Len(result.issues) = Len(broken)
    /\ \A n \in 1..Len(broken) : Render(result.issues[n]) = C4_Entry(result, broken[n])

C4_TenGenerative(result) ==
    CountIn(result, "Generative AI & LLMs") = 10 =>
        \E n \in 1..Len(result.issues) :
            Render(result.issues[n]) = "Generative AI & LLMs: Found 10, need 4-5"

C4_OneIssuePerBrokenConstraint ==
    HasResult =>
        /\ C4_EntriesOf(validation_result, C4_Broken(validation_result))
        /\ C4_TenGenerative(validation_result)

C4_OneIssuePerBrokenConstraintNoError ==
    NormalResult =>
        /\ C4_EntriesOf(validation_result, C4_Broken(validation_result))
        /\ C4_TenGenerative(validation_result)

C4_Witness ==
    /\ pc = "validated"
    /\ NormalResult
    /\ CountIn(validation_result, "Generative AI & LLMs") = 10
    /\ Len(validation_result.issues) = 6
    /\ Render(validation_result.issues[2]) = "Generative AI & LLMs: Found 10, need 4-5"

----------------------------------------------------------------------------
(* C5: each record increments exactly one of the five counters, by one;    *)
(* a record no keyword matches is counted too.                             *)

\* the counts of the first n extracted records
C5_CountsOfFirst(n) ==
    CategorizeUseCases(SubSeq(validation_result.extracted_use_cases, 1, n))

\* from counts before to counts after, one counter is one higher and the
\* other four are as they were
C5_OneIncrement(before, after) ==
    /\ Cardinality({c \in CategorySet : after[c] = before[c] + 1}) = 1
    /\ Cardinality({c \in CategorySet : after[c] = before[c]}) = 4

\* no keyword of any category occurs in the record
C5_NoKeyword(use_case) ==
    \A k \in 1..Len(Categories) : Matches(CategoryKeywords[k], FullText(use_case)) = 0

C5_ExactlyOneCategory ==
    (pc = "validated" /\ NormalResult) =>
        /\ \A n \in 1..Len(validation_result.extracted_use_cases) :
              C5_OneIncrement(C5_CountsOfFirst(n - 1), C5_CountsOfFirst(n))
        /\ validation_result.category_counts
              = C5_CountsOfFirst(Len(validation_result.extracted_use_cases))

C5_Witness ==
    /\ pc = "validated"
    /\ NormalResult
    /\ Len(validation_result.extracted_use_cases) = 1
    /\ C5_NoKeyword(validation_result.extracted_use_cases[1])
    /\ SumValues(validation_result.category_counts) = 1

----------------------------------------------------------------------------
(* C6: a record some keyword matches is counted in the category of the     *)
(* highest keyword-match count, and among categories that tie for it in    *)
(* the first of the declared order: one Generative AI keyword and one      *)
(* Computer Vision keyword make a Generative AI record.                    *)

\* the keyword-match count of the n-th category for a record
C6_Score(use_case, n) == Matches(CategoryKeywords[n], FullText(use_case))

\* the first category of the declared order no category outscores
C6_Winner(use_case) ==
    CHOOSE n \in 1..Len(ClaimedOrder) :
        /\ \A j \in 1..Len(ClaimedOrder) : C6_Score(use_case, j) <= C6_Score(use_case, n)
        /\ \A j \in 1..(n - 1) : C6_Score(use_case, j) < C6_Score(use_case, n)

C6_CountedFor(use_case, winner) ==
    C6_Score(use_case, winner) > 0 =>
        CategorizeUseCases(<<use_case>>)[ClaimedOrder[winner]] = 1

C6_FirstBestCategoryWins ==
    (pc = "validated" /\ NormalResult) =>
        \A n \in 1..Len(validation_result.extracted_use_cases) :
            C6_CountedFor(validation_result.extracted_use_cases[n],
                          C6_Winner(validation_result.extracted_use_cases[n]))

C6_Witness ==
    /\ pc = "validated"
    /\ NormalResult
    /\ Len(validation_result.extracted_use_cases) = 1
    /\ [n \in 1..5 |-> C6_Score(validation_result.extracted_use_cases[1], n)]
          = <<1, 1, 0, 0, 0>>
    /\ CountIn(validation_result, "Generative AI & LLMs") = 1
    /\ CountIn(validation_result, "Computer Vision") = 0

----------------------------------------------------------------------------
(* C7: every extracted record has a non-empty trimmed title. The fallback  *)
(* line scan keeps the record of a marker line that is nothing but its     *)
(* number, as of the text "1.".                                            *)

C7_TitlesNotEmpty ==
    HasResult =>
        \A n \in 1..Len(validation_result.extracted_use_cases) :
            Strip(validation_result.extracted_use_cases[n].title) # <<>>

----------------------------------------------------------------------------
(* C8: validate_use_cases never lets an exception out: a fault inside it   *)
(* comes back as a result with valid = FALSE whose only issue is           *)
(* "Validation error: <message>".                                          *)

C8_ErrorsBecomeIssues ==
    pc # "idle" =>
        /\ outcome = "returned"
        /\ InternalError =>
              /\ validation_result.valid = FALSE
              /\ Len(validation_result.issues) = 1
              /\ Render(validation_result.issues[1])
                    = "Validation error: " \o TypeErrorMessage

C8_Witness ==
    /\ pc = "validated"
    /\ InternalError
    /\ outcome = "returned"
    /\ validation_result.valid = FALSE
    /\ Len(validation_result.issues) = 1

----------------------------------------------------------------------------
(* C9: a text with no numbered content, the empty text included, yields    *)
(* no record; the result of a text that yields no record has valid =       *)
(* FALSE, total_count = 0, a zero count for each of the five categories    *)
(* and six issues: the total's, then one per category in declared order.   *)

\* no digit occurs in the text
C9_NoNumber(text) == \A i \in 1..Len(text.value) : ~IsDigit(text.value[i])

C9_SixIssues(result) ==
    /\ result.valid = FALSE
    /\ result.total_count = 0
    /\ DOMAIN result.category_counts = CategorySet
    /\ \A c \in CategorySet : CountIn(result, c) = 0
    /\ Len(result.issues) = 6
    /\ Render(result.issues[1]) = "Total use cases: 0, need 15-20"
    /\ \A n \in 1..5 :
          Render(result.issues[n + 1])
            = ClaimedOrder[n] \o ": Found 0, need "
              \o ToString(ClaimedMin(ClaimedOrder[n])) \o "-"
              \o ToString(ClaimedMax(ClaimedOrder[n]))

C9_NothingToExtract ==
    NormalResult =>
        /\ C9_NoNumber(use_cases_text) => validation_result.extracted_use_cases = <<>>
        /\ validation_result.extracted_use_cases = <<>> => C9_SixIssues(validation_result)

C9_Witness ==
    /\ pc = "validated"
    /\ NormalResult
    /\ Len(use_cases_text.value) > 1
    /\ C9_NoNumber(use_cases_text)
    /\ \E i \in 1..Len(use_cases_text.value) : use_cases_text.value[i] = "x"
    /\ C9_SixIssues(validation_result)

----------------------------------------------------------------------------
(* C10: generate_enhancement_prompt returns the empty string for a result  *)
(* with valid = TRUE and a non-empty string for one with valid = FALSE.    *)

C10_EmptyPromptIffValid ==
    pc = "prompted" => (Render(prompt) = "" <=> validation_result.valid)

C10_Witness ==
    /\ pc = "prompted"
    /\ validation_result.valid
    /\ Render(prompt) = ""

----------------------------------------------------------------------------
(* C11: for an invalid result generate_enhancement_prompt returns a text   *)
(* that holds every entry of issues verbatim, in the order of the list,    *)
(* restates the 15-20 range of the total and the min-max range of each of  *)
(* the five categories, and the call leaves the result as it was.          *)

\* the pieces of `part` stand in `text` from position i on
C11_At(text, part, i) ==
    /\ i + Len(part) - 1 <= Len(text)
    /\ \A j \in 1..Len(part) : text[i + j - 1] = part[j]

\* the first position from `start` on at which `part` stands in `text`,
\* 0 when there is none
C11_Find(text, part, start) ==
    IF \E i \in start..Len(text) : C11_At(text, part, i)
    THEN CHOOSE i \in start..Len(text) :
             C11_At(text, part, i) /\ \A j \in start..(i - 1) : ~C11_At(text, part, j)
    ELSE 0

RECURSIVE C11_InOrder(_, _, _, _)
RECURSIVE C11_After(_, _, _, _)
\* the issues from the n-th on stand in the text from `start` on, one after
\* the other
C11_InOrder(text, issues, n, start) ==
    IF n > Len(issues) THEN TRUE
    ELSE C11_After(text, issues, n, C11_Find(text, issues[n], start))

C11_After(text, issues, n, found) ==
    found # 0 /\ C11_InOrder(text, issues, n + 1, found + Len(issues[n]))

\* some run of up to five pieces of the text reads as the string s
C11_Reads(text, s) ==
    \E i \in 1..Len(text) : \E j \in i..(i + 4) :
        j <= Len(text) /\ Render(SubSeq(text, i, j)) = s

C11_Restates(text) ==
    /\ \E i \in 1..Len(text) : text[i] = "- Generate EXACTLY 15-20 use cases total\n"
    /\ \A n \in 1..Len(ClaimedOrder) :
          C11_Reads(text, ClaimedOrder[n] \o ": "
                          \o ToString(ClaimedMin(ClaimedOrder[n])) \o "-"
                          \o ToString(ClaimedMax(ClaimedOrder[n])))

C11_PromptOfInvalid(text, result) ==
    ~result.valid =>
        /\ C11_InOrder(text, result.issues, 1, 1)
        /\ C11_Restates(text)

C11_PromptListsIssues ==
    [][pc' = "prompted" =>
          /\ validation_result' = validation_result
          /\ C11_PromptOfInvalid(prompt', validation_result)]_vars

C11_Witness ==
    /\ pc = "prompted"
    /\ ~validation_result.valid
    /\ Len(validation_result.issues) >= 2
    /\ C11_InOrder(prompt, validation_result.issues, 1, 1)
    /\ C11_Find(prompt, validation_result.issues[2], 1)
          > C11_Find(prompt, validation_result.issues[1], 1)

----------------------------------------------------------------------------
(* C12: whatever validate_use_cases and generate_enhancement_prompt calls  *)
(* came before, validate_use_cases returns for the same text the same      *)
(* total_count, category_counts, issues and extracted records.             *)

C12_Same(r1, r2) ==
    /\ r1.total_count = r2.total_count
    /\ r1.category_counts = r2.category_counts
    /\ r1.issues = r2.issues
    /\ r1.extracted_use_cases = r2.extracted_use_cases

C12_SameTextSameResult ==
    \A text \in CallTexts :
        \A r1 \in returned[text] : \A r2 \in returned[text] : C12_Same(r1, r2)

C12_Witness ==
    /\ \E text \in CallTexts :
          /\ text.type = "str"
          /\ text.value # <<>>
          /\ completed[text] >= 2
          /\ Cardinality(returned[text]) = 1
    /\ \E text \in CallTexts : completed[text] = 1
    /\ \E c \in Callers : caller[c].pc = "prompted"

----------------------------------------------------------------------------
(* C13: calls of validate_use_cases by concurrent callers of one           *)
(* validator, their steps interleaved in any way, do not touch each        *)
(* other: a step changes the locals of no call but its caller's, and each  *)
(* caller gets the dict the call returns when it runs alone.               *)

\* what validate_use_cases(text) returns when nothing runs beside it
C13_Alone(text) == ValidateUseCases(text).value

C13_OwnResult ==
    \A c \in Callers :
        caller[c].pc \in {"returned", "prompted"} => caller[c].got = C13_Alone(caller[c].text)

C13_OwnLocals ==
    \A c \in Callers : caller'[c] = caller[c] => frame'[c] = frame[c]

C13_CallsAreIndependent == []C13_OwnResult /\ [][C13_OwnLocals]_vars

C13_Witness ==
    /\ caller["a"].pc = "return"
    /\ caller["b"].pc \in {"categorize", "check"}
    /\ caller["a"].text # caller["b"].text
    /\ caller["a"].text.type = "str"
    /\ caller["b"].text.type = "str"
    /\ frame["a"].validation_result = C13_Alone(caller["a"].text)
    /\ frame["a"].validation_result.total_count = 2

----------------------------------------------------------------------------
(* C14: the caller of the use case generation generates, validates, and    *)
(* then accepts valid use cases, regenerates invalid ones while retries    *)
(* remain, and accepts invalid ones with a warning only once the retries   *)
(* are used up. generate_proposal invokes the use case agent once, never   *)
(* passes its text to the validator and goes on whatever the text is.      *)

\* the number of times the use case agent was invoked in the run
C14_Generations == Len(SelectSeq(run.agents, LAMBDA name : name = "use_cases"))

\* what the validator says of the use cases the run goes on with
C14_Valid == ValidateUseCases(Str(run.use_cases)).value.valid

\* the output check warned of the use cases
C14_Warned == \E n \in 1..Len(run.log) : run.log[n] = "warning: insufficient use cases"

C14_AcceptsValidOrAfterRetries ==
    run.result.status = "success" =>
        \/ C14_Valid
        \/ C14_Generations = 1 + MAX_RETRIES /\ C14_Warned


----------------------------------------------------------------------------
(* C15: extraction tries the bold numbered heading, the plain numbered     *)
(* title line and the markdown numbered heading in that order and returns  *)
(* the matches of the first of them that matches anywhere in the text, and *)
(* of no other; the line-by-line fallback runs only when none matches.     *)

\* grammar k matches somewhere in the text
C15_Matches(k, t) == \E i \in 1..Len(t) : MatchesAt(k, t, i)

\* the first grammar in priority order that matches, 0 when none does
C15_First(t) ==
    IF C15_Matches(1, t) THEN 1
    ELSE IF C15_Matches(2, t) THEN 2
    ELSE IF C15_Matches(3, t) THEN 3
    ELSE 0

\* the records of grammar k alone
C15_RecordsOf(k, t) == UseCasesOfMatches(FindAll(k, t))

C15_Expected(k, t) == IF k = 0 THEN SplitByLines(t) ELSE C15_RecordsOf(k, t)

C15_FirstGrammarOnly ==
    NormalResult =>
        validation_result.extracted_use_cases
          = C15_Expected(C15_First(use_cases_text.value), use_cases_text.value)

\* a text in which the first two grammars both match, with different records
C15_Witness ==
    /\ pc = "validated"
    /\ NormalResult
    /\ C15_Matches(1, use_cases_text.value)
    /\ C15_Matches(2, use_cases_text.value)
    /\ C15_RecordsOf(1, use_cases_text.value) # C15_RecordsOf(2, use_cases_text.value)
    /\ validation_result.extracted_use_cases = C15_RecordsOf(1, use_cases_text.value)


----------------------------------------------------------------------------
(* C16: when the bold-heading grammar applies, every heading               *)
(* "<integer>. **title**" of the text yields one record, in text order,    *)
(* whose description is the text between that heading and the next bold    *)
(* numbered heading or the end of the text, whatever the body holds. The   *)
(* third group of the pattern, [^0-9]*?, cannot run over a digit: a        *)
(* heading whose body holds a figure does not match and yields no record.  *)

\* a number starts at i, followed by a period, optional spaces and a
\* non-empty title between two pairs of asterisks ending before b
C16_TitledAt(t, s, b) == StarsAt(t, s) /\ b > s + 2 /\ StarsAt(t, b)

C16_StarredAt(t, s) == C16_TitledAt(t, s, NonStarEnd(t, s + 2))

C16_NumberedAt(t, i, j) == DotAfter(t, i, j) /\ C16_StarredAt(t, SpaceEnd(t, j + 1))

C16_HeadingAt(t, i) ==
    /\ IsDigit(t[i])
    /\ i = 1 \/ ~IsDigit(t[i - 1])
    /\ C16_NumberedAt(t, i, DigitsEnd(t, i))

\* where the bold numbered headings of the text start
C16_Headings(t) == { i \in 1..Len(t) : C16_HeadingAt(t, i) }

\* the n-th heading of the text
C16_Nth(H, n) == CHOOSE i \in H : Cardinality({ h \in H : h < i }) = n - 1

\* the index after the closing asterisks of the heading at i
C16_HeadingEnd(t, i) == NonStarEnd(t, SpaceEnd(t, DigitsEnd(t, i) + 1) + 2) + 2

\* the text between the n-th heading and the next one, or the end of the text
C16_Body(t, H, n) ==
    Slice(t, C16_HeadingEnd(t, C16_Nth(H, n)),
          IF n < Cardinality(H) THEN C16_Nth(H, n + 1) ELSE Len(t) + 1)

C16_OneRecordPerHeading(t, H, records) ==
    /\ Len(records) = Cardinality(H)
    /\ \A n \in 1..Len(records) :
          Strip(records[n].description) = Strip(C16_Body(t, H, n))

C16_NoBoldHeadingLost ==
    NormalResult /\ C15_First(use_cases_text.value) = 1 =>
        C16_OneRecordPerHeading(use_cases_text.value, C16_Headings(use_cases_text.value),
                                validation_result.extracted_use_cases)

\* the claim's case without a figure in a body: two headings, two records
C16_Reached ==
    /\ pc = "validated"
    /\ NormalResult
    /\ C15_First(use_cases_text.value) = 1
    /\ Cardinality(C16_Headings(use_cases_text.value)) = 2
    /\ C16_OneRecordPerHeading(use_cases_text.value, C16_Headings(use_cases_text.value),
                               validation_result.extracted_use_cases)
    /\ validation_result.extracted_use_cases[1].description # <<>>


----------------------------------------------------------------------------
(* C17: when the plain-title grammar applies, every line                   *)
(* "<integer>. <title>" yields one record whose title is the line's text,  *)
(* the last line included when the text ends right after its title: a text *)
(* of N such lines yields N records. The second pattern asks for a newline *)
(* after the title, ([^\n]+)\n, so a last line without one does not match. *)

\* the lines of the text, a last empty one (after a final newline) left out
C17_WithoutLast(lines) ==
    IF lines[Len(lines)] = <<>> THEN SubSeq(lines, 1, Len(lines) - 1) ELSE lines

C17_Lines(t) == C17_WithoutLast(SplitLines(t))

\* the text of a numbered line after its number and period
C17_TitleOf(line) == Strip(Slice(line, DigitsEnd(line, 1) + 1, Len(line) + 1))

\* a line of the form "<integer>. <title>"
C17_NumberedLine(line) ==
    /\ line # <<>>
    /\ NumberAt(line, 1)
    /\ C17_TitleOf(line) # <<>>

\* the lines are one or more numbered lines and nothing else
C17_AllNumbered(lines) ==
    /\ lines # <<>>
    /\ \A n \in 1..Len(lines) : C17_NumberedLine(lines[n])

C17_OneRecordPerLine(lines, records) ==
    /\ Len(records) = Len(lines)
    /\ \A n \in 1..Len(records) : records[n].title = C17_TitleOf(lines[n])

C17_NoNumberedLineLost ==
    NormalResult /\ C15_First(use_cases_text.value) = 2
                 /\ C17_AllNumbered(C17_Lines(use_cases_text.value)) =>
        C17_OneRecordPerLine(C17_Lines(use_cases_text.value),
                             validation_result.extracted_use_cases)

\* the claim's case with a newline after the last title: two lines, two records
C17_Reached ==
    /\ pc = "validated"
    /\ NormalResult
    /\ C15_First(use_cases_text.value) = 2
    /\ C17_AllNumbered(C17_Lines(use_cases_text.value))
    /\ Len(C17_Lines(use_cases_text.value)) = 2
    /\ C17_OneRecordPerLine(C17_Lines(use_cases_text.value),
                            validation_result.extracted_use_cases)


----------------------------------------------------------------------------
(* C18: in the line-by-line fallback every line beginning with             *)
(* "<integer>." starts a record whose title is the rest of that line, and  *)
(* the record's description is the following non-marker lines joined with  *)
(* a single space and trimmed; lines before the first marker belong to no  *)
(* record. The code appends line + " " for every such line and never       *)
(* trims the result: a description that is not empty ends with a space.    *)

\* the lines of the text, each trimmed
C18_Lines(t) == [n \in 1..Len(SplitLines(t)) |-> Strip(SplitLines(t)[n])]

\* which lines begin with "<integer>."
C18_Markers(lines) == { n \in 1..Len(lines) : NumberAt(lines[n], 1) }

\* the rest of a marker line after its number, period and spaces
C18_Rest(line) == Slice(line, SpaceEnd(line, DigitsEnd(line, 1) + 1), Len(line) + 1)

RECURSIVE C18_Joined(_, _, _)
\* the non-empty lines n..hi joined with single spaces
C18_Joined(lines, n, hi) ==
    IF n > hi THEN <<>>
    ELSE IF lines[n] = <<>> THEN C18_Joined(lines, n + 1, hi)
    ELSE IF C18_Joined(lines, n + 1, hi) = <<>> THEN lines[n]
    ELSE lines[n] \o <<" ">> \o C18_Joined(lines, n + 1, hi)

\* the lines after the k-th marker up to the next marker or the last line
C18_Following(lines, M, k) ==
    C18_Joined(lines, C16_Nth(M, k) + 1,
               IF k < Cardinality(M) THEN C16_Nth(M, k + 1) - 1 ELSE Len(lines))

C18_RecordPerMarker(lines, M, records) ==
    /\ Len(records) = Cardinality(M)
    /\ \A k \in 1..Len(records) :
          /\ records[k].title = C18_Rest(lines[C16_Nth(M, k)])
          /\ records[k].description = Strip(C18_Following(lines, M, k))

C18_FallbackRecords ==
    NormalResult /\ C15_First(use_cases_text.value) = 0 =>
        C18_RecordPerMarker(C18_Lines(use_cases_text.value),
                            C18_Markers(C18_Lines(use_cases_text.value)),
                            validation_result.extracted_use_cases)

\* the claim's case without description lines: a line before the first
\* marker belongs to no record
C18_Reached ==
    /\ pc = "validated"
    /\ NormalResult
    /\ C15_First(use_cases_text.value) = 0
    /\ C18_Markers(C18_Lines(use_cases_text.value)) # {}
    /\ 1 \notin C18_Markers(C18_Lines(use_cases_text.value))
    /\ C18_Lines(use_cases_text.value)[1] # <<>>
    /\ C18_RecordPerMarker(C18_Lines(use_cases_text.value),
                           C18_Markers(C18_Lines(use_cases_text.value)),
                           validation_result.extracted_use_cases)

\* all that differs from the claim is the trailing space of a description
C18_UpToTrailingSpace ==
    NormalResult /\ C15_First(use_cases_text.value) = 0 =>
        C18_RecordPerMarker(C18_Lines(use_cases_text.value),
                            C18_Markers(C18_Lines(use_cases_text.value)),
                            [k \in 1..Len(validation_result.extracted_use_cases) |->
                               [validation_result.extracted_use_cases[k]
                                  EXCEPT !.description = Strip(@)]])


----------------------------------------------------------------------------
(* C19: extraction returns the records in the order their headings occur   *)
(* in the text, each with its number exactly as written: one record per    *)
(* heading, never renumbered, sorted or deduplicated, so two headings with *)
(* the same number yield two records with the same number.                 *)

\* the number, as written, stands at i followed by a period
C19_WrittenAt(t, i, number) ==
    /\ number # <<>>
    /\ \A d \in 1..Len(number) : IsDigit(number[d])
    /\ i + Len(number) <= Len(t)
    /\ Slice(t, i, i + Len(number)) = number
    /\ CharAt(t, i + Len(number), ".")

\* the places from `from` on where the number is written
C19_Places(t, number, from) == { i \in from..Len(t) : C19_WrittenAt(t, i, number) }

C19_Least(S) == CHOOSE i \in S : \A j \in S : i <= j

RECURSIVE C19_InTextOrder(_, _, _, _)
\* the numbers of the records from the k-th on are written in the text from
\* `from` on, one after the other
C19_InTextOrder(t, records, k, from) ==
    IF k > Len(records) THEN TRUE
    ELSE /\ C19_Places(t, records[k].number, from) # {}
         /\ C19_InTextOrder(t, records, k + 1,
                C19_Least(C19_Places(t, records[k].number, from))
                  + Len(records[k].number) + 1)

\* how many headings the grammar that applies finds in the text (the marker
\* lines, when the fallback runs)
C19_Headings(k, t) ==
    IF k = 0 THEN Cardinality(C18_Markers(C18_Lines(t))) ELSE Len(FindAll(k, t))

C19_OrderAndNumbersKept ==
    NormalResult =>
        /\ Len(validation_result.extracted_use_cases)
             = C19_Headings(C15_First(use_cases_text.value), use_cases_text.value)
        /\ C19_InTextOrder(use_cases_text.value, validation_result.extracted_use_cases, 1, 1)

\* two headings with the same number: two records with that number
C19_Witness ==
    /\ pc = "validated"
    /\ NormalResult
    /\ C15_First(use_cases_text.value) # 0
    /\ Len(validation_result.extracted_use_cases) = 2
    /\ validation_result.extracted_use_cases[1].number = <<"1">>
    /\ validation_result.extracted_use_cases[2].number = <<"1">>
    /\ Cardinality(C19_Places(use_cases_text.value, <<"1">>, 1)) = 2

\* headings numbered 3 and 1, in this order: records numbered 3 and 1
C19_Unsorted ==
    /\ pc = "validated"
    /\ NormalResult
    /\ Len(validation_result.extracted_use_cases) = 2
    /\ validation_result.extracted_use_cases[1].number = <<"3">>
    /\ validation_result.extracted_use_cases[2].number = <<"1">>


----------------------------------------------------------------------------
(* C20: a record none of whose text matches a keyword of any category is   *)
(* classified by the generic term groups, tested in the order Generative   *)
(* AI & LLMs, Computer Vision, Predictive Analytics & ML, Natural Language *)
(* Processing, the first group with a term in the text winning, and goes   *)
(* to Automation & Optimization when no group has one. A record with a     *)
(* keyword of some category is counted for a category it has a keyword of, *)
(* whatever generic terms it holds.                                        *)

C20_GroupOrder ==
    << "Generative AI & LLMs", "Computer Vision", "Predictive Analytics & ML",
       "Natural Language Processing" >>

\* no keyword of any category occurs in the text
C20_NoKeyword(full_text) ==
    \A k \in 1..Len(Categories) : Matches(CategoryKeywords[k], full_text) = 0

\* the groups with a term in the text
C20_Groups(full_text) ==
    { g \in 1..Len(C20_GroupOrder) : AnyTerm(DefaultTerms[g], full_text) }

\* the category the claim gives a text without keywords
C20_Claimed(full_text) ==
    IF C20_Groups(full_text) = {} THEN "Automation & Optimization"
    ELSE C20_GroupOrder[C19_Least(C20_Groups(full_text))]

\* the one record of the result is counted for category c and no other
C20_CountedAs(result, c) ==
    \A d \in CategorySet : CountIn(result, d) = (IF d = c THEN 1 ELSE 0)

C20_ByKeyword(result, full_text) ==
    \E k \in 1..Len(Categories) :
        /\ Matches(CategoryKeywords[k], full_text) > 0
        /\ C20_CountedAs(result, Categories[k])

C20_Classified(result, full_text) ==
    IF C20_NoKeyword(full_text)
    THEN C20_CountedAs(result, C20_Claimed(full_text))
    ELSE C20_ByKeyword(result, full_text)

C20_FallbackOrder ==
    NormalResult /\ Len(validation_result.extracted_use_cases) = 1 =>
        C20_Classified(validation_result, FullText(validation_result.extracted_use_cases[1]))

\* a record without keywords that holds a Generative term and a Vision term
C20_Witness ==
    /\ pc = "validated"
    /\ NormalResult
    /\ Len(validation_result.extracted_use_cases) = 1
    /\ C20_NoKeyword(FullText(validation_result.extracted_use_cases[1]))
    /\ {1, 2} \subseteq C20_Groups(FullText(validation_result.extracted_use_cases[1]))
    /\ C20_CountedAs(validation_result, "Generative AI & LLMs")

\* a record with a keyword of Natural Language Processing and a term of the
\* Generative group: the term groups are not consulted
C20_NotConsulted ==
    /\ pc = "validated"
    /\ NormalResult
    /\ Len(validation_result.extracted_use_cases) = 1
    /\ ~C20_NoKeyword(FullText(validation_result.extracted_use_cases[1]))
    /\ 1 \in C20_Groups(FullText(validation_result.extracted_use_cases[1]))
    /\ C20_CountedAs(validation_result, "Natural Language Processing")


----------------------------------------------------------------------------
(* C21: a record without a keyword of any category whose text holds        *)
(* "generative", "content", "chatbot" or "language" is classified as       *)
(* Generative AI & LLMs; one that holds, and no term of an earlier group,  *)
(* "image", "visual", "vision" or "detection" as Computer Vision;          *)
(* "predict", "forecast", "analytics" or "model" as Predictive Analytics & *)
(* ML; "text", "document" or "sentiment" as Natural Language Processing.   *)
(* The code tests "generate", which "generative" does not contain.         *)

\* the terms the claim names, by group
C21_Terms ==
    << << <<"g", "e", "n", "e", "r", "a", "t", "i", "v", "e">>, <<"c", "o", "n", "t", "e", "n", "t">>, <<"c", "h", "a", "t", "b", "o", "t">>, <<"l", "a", "n", "g", "u", "a", "g", "e">> >>,
       << <<"i", "m", "a", "g", "e">>, <<"v", "i", "s", "u", "a", "l">>, <<"v", "i", "s", "i", "o", "n">>, <<"d", "e", "t", "e", "c", "t", "i", "o", "n">> >>,
       << <<"p", "r", "e", "d", "i", "c", "t">>, <<"f", "o", "r", "e", "c", "a", "s", "t">>, <<"a", "n", "a", "l", "y", "t", "i", "c", "s">>, <<"m", "o", "d", "e", "l">> >>,
       << <<"t", "e", "x", "t">>, <<"d", "o", "c", "u", "m", "e", "n", "t">>, <<"s", "e", "n", "t", "i", "m", "e", "n", "t">> >> >>

\* the groups of which the text holds a named term
C21_Groups(full_text) ==
    { g \in 1..Len(C21_Terms) : AnyTerm(C21_Terms[g], full_text) }

C21_Triggered(result, full_text) ==
    C20_NoKeyword(full_text) /\ C21_Groups(full_text) # {} =>
        C20_CountedAs(result, C20_GroupOrder[C19_Least(C21_Groups(full_text))])

C21_NamedTermsTrigger ==
    NormalResult /\ Len(validation_result.extracted_use_cases) = 1 =>
        C21_Triggered(validation_result, FullText(validation_result.extracted_use_cases[1]))

\* the named terms other than "generative" do trigger their group: here a
\* record that holds a term of the last group only
C21_Reached ==
    /\ pc = "validated"
    /\ NormalResult
    /\ Len(validation_result.extracted_use_cases) = 1
    /\ C20_NoKeyword(FullText(validation_result.extracted_use_cases[1]))
    /\ C21_Groups(FullText(validation_result.extracted_use_cases[1])) = {4}
    /\ C20_CountedAs(validation_result, "Natural Language Processing")

\* every departure from the claim is a text that holds "generative" or
\* "generate"
C21_ExceptGenerative ==
    NormalResult /\ Len(validation_result.extracted_use_cases) = 1
                 /\ ~Contains(FullText(validation_result.extracted_use_cases[1]),
                              C21_Terms[1][1])
                 /\ ~Contains(FullText(validation_result.extracted_use_cases[1]),
                              DefaultTerms[1][3]) =>
        C21_Triggered(validation_result, FullText(validation_result.extracted_use_cases[1]))


----------------------------------------------------------------------------
(* C22: a category's score for a record is the number of its keywords that *)
(* occur, letter case aside, anywhere in the record's title and            *)
(* description: inside a longer word or inside a keyword phrase of another *)
(* category as well, and once per keyword however often it occurs. The     *)
(* record is counted for the first category, in declared order, of the     *)
(* greatest score, when that score is not zero.                            *)

\* the keyword stands at i in the text, letter case aside
C22_StandsAt(text, keyword, i) ==
    /\ i + Len(keyword) - 1 <= Len(text)
    /\ \A j \in 1..Len(keyword) : LowerChar(text[i + j - 1]) = keyword[j]

\* how often the keyword stands in the text
C22_Times(text, keyword) ==
    Cardinality({ i \in 1..Len(text) : C22_StandsAt(text, keyword, i) })

\* the score the claim gives category k
C22_Score(k, text) ==
    Cardinality({ n \in 1..Len(CategoryKeywords[k]) :
                    C22_Times(text, CategoryKeywords[k][n]) > 0 })

\* the text the claim scores: title and description
C22_Text(use_case) == use_case.title \o <<" ">> \o use_case.description

\* category k is the first of the greatest score, which is not zero
C22_Best(k, text) ==
    /\ C22_Score(k, text) > 0
    /\ \A j \in 1..Len(Categories) :
          /\ C22_Score(j, text) <= C22_Score(k, text)
          /\ j < k => C22_Score(j, text) < C22_Score(k, text)

C22_CountedByScore(result, text) ==
    \A k \in 1..Len(Categories) :
        C22_Best(k, text) => C20_CountedAs(result, Categories[k])

C22_SubstringScore ==
    NormalResult /\ Len(validation_result.extracted_use_cases) = 1 =>
        C22_CountedByScore(validation_result,
                           C22_Text(validation_result.extracted_use_cases[1]))

\* a keyword of Natural Language Processing twice and one of Generative AI &
\* LLMs once: each scores 1 and the first category wins
C22_Witness ==
    /\ pc = "validated"
    /\ NormalResult
    /\ Len(validation_result.extracted_use_cases) = 1
    /\ C22_Times(C22_Text(validation_result.extracted_use_cases[1]), <<"n", "l", "p">>) = 2
    /\ C22_Score(4, C22_Text(validation_result.extracted_use_cases[1])) = 1
    /\ C22_Score(1, C22_Text(validation_result.extracted_use_cases[1])) = 1
    /\ C20_CountedAs(validation_result, "Generative AI & LLMs")

\* a keyword inside a longer word, in capitals or not, scores
C22_InsideWord ==
    /\ pc = "validated"
    /\ NormalResult
    /\ validation_result.extracted_use_cases[1].title = <<"l", "l", "m", "s">>
    /\ C20_CountedAs(validation_result, "Generative AI & LLMs")

\* "text classification", a keyword of Natural Language Processing, holds
\* "classification", a keyword of Predictive Analytics & ML: both score
C22_InsidePhrase ==
    /\ pc = "validated"
    /\ NormalResult
    /\ Len(validation_result.extracted_use_cases) = 1
    /\ C22_Score(3, C22_Text(validation_result.extracted_use_cases[1])) = 1
    /\ C22_Score(4, C22_Text(validation_result.extracted_use_cases[1])) = 1
    /\ C22_Score(1, C22_Text(validation_result.extracted_use_cases[1])) = 0
    /\ C20_CountedAs(validation_result, "Predictive Analytics & ML")


----------------------------------------------------------------------------
(* C23: a result with valid = TRUE has a total_count between 16 and 20.    *)
(* The five minimums sum to 16, so a result of exactly 15 records is never *)
(* valid although 15 lies in the range 15-20; the maximums sum to 21, so a *)
(* result with every category at its maximum is never valid.               *)

\* every category is at the maximum the claims state
C23_AllAtMax(result) ==
    \A n \in 1..Len(ClaimedOrder) :
        CountIn(result, ClaimedOrder[n]) = ClaimedMax(ClaimedOrder[n])

C23_ValidTotal ==
    HasResult =>
        /\ validation_result.valid =>
              validation_result.total_count >= 16 /\ validation_result.total_count <= 20
        /\ validation_result.total_count = 15 => ~validation_result.valid
        /\ C23_AllAtMax(validation_result) => ~validation_result.valid

\* a valid result of 16 records: every category at its minimum
C23_Witness ==
    /\ pc = "validated"
    /\ HasResult
    /\ validation_result.valid
    /\ validation_result.total_count = 16
    /\ \A n \in 1..Len(ClaimedOrder) :
          CountIn(validation_result, ClaimedOrder[n]) = ClaimedMin(ClaimedOrder[n])

\* a result of 15 records with a single category below its minimum
C23_Fifteen ==
    /\ pc = "validated"
    /\ NormalResult
    /\ validation_result.total_count = 15
    /\ Len(validation_result.issues) = 1
    /\ ~validation_result.valid

\* every category at its maximum: 21 records, the total being the only issue
C23_TwentyOne ==
    /\ pc = "validated"
    /\ NormalResult
    /\ C23_AllAtMax(validation_result)
    /\ validation_result.total_count = 21
    /\ Len(validation_result.issues) = 1
    /\ ~validation_result.valid


----------------------------------------------------------------------------
(* C24: in a result produced without an internal error missing_categories  *)
(* lists exactly the categories whose count is outside its range, above    *)
(* the maximum as well as below the minimum, in declared order and once    *)
(* each; issues has one entry more than missing_categories when the total  *)
(* is outside 15-20 and as many otherwise; valid is TRUE exactly when both *)
(* lists are empty.                                                        *)

\* the categories outside their range, in declared order
C24_OutOfRange(result) ==
    SelectSeq(ClaimedOrder, LAMBDA c : ~InClaimedRange(result, c))

C24_TotalIssues(result) == IF TotalInClaimedRange(result) THEN 0 ELSE 1

C24_Lists(result) ==
    /\ result.missing_categories = C24_OutOfRange(result)
    /\ Len(result.issues) = Len(result.missing_categories) + C24_TotalIssues(result)
    /\ result.valid <=> (result.issues = <<>> /\ result.missing_categories = <<>>)

C24_MissingCategories == NormalResult => C24_Lists(validation_result)

\* one category above its maximum, the four others below their minimum, the
\* total in range
C24_Witness ==
    /\ pc = "validated"
    /\ NormalResult
    /\ CountIn(validation_result, "Computer Vision") > ClaimedMax("Computer Vision")
    /\ TotalInClaimedRange(validation_result)
    /\ validation_result.missing_categories = ClaimedOrder
    /\ Len(validation_result.issues) = 5
    /\ ~validation_result.valid


----------------------------------------------------------------------------
(* C25: generate_proposal runs the four agent steps at most once each and  *)
(* in the order research, use cases, resources, proposal, each after the   *)
(* one before it has returned; when a step fails no later step runs and    *)
(* neither the consolidated report nor the JSON file is written.           *)

C25_Order == << "research", "use_cases", "resources", "proposal" >>

\* where the run stands after the n-th step returned
C25_Position == << "use_cases", "resources", "proposal", "validate" >>

\* the steps run so far are the first ones of the order, once each
C25_InOrder == run.agents = SubSeq(C25_Order, 1, Len(run.agents))

\* the run ended by the failure of an agent step
C25_StepFailed == run.result.status = "error" /\ run.result.message = "agent failed"

\* a file is written only after the four steps
C25_FilesAfterSteps == run.files # {} => run.agents = C25_Order

\* a step that starts is the next of the order, and the one before it has
\* returned without a failure; its return or failure is part of the step
C25_Starts ==
    run.agents' # run.agents =>
        /\ run.agents' = Append(run.agents, C25_Order[Len(run.agents) + 1])
        /\ run.result.status = "none"
        /\ run'.pc \in {C25_Position[Len(run.agents')], "done"}

\* after a failed step nothing runs and nothing is written
C25_Stops == C25_StepFailed => run.agents' = run.agents /\ run.files' = run.files

C25_StepsInOrder ==
    /\ [](C25_InOrder /\ C25_FilesAfterSteps /\ (C25_StepFailed => run.files = {}))
    /\ [][C25_Starts /\ C25_Stops]_vars

\* the use case step failed after research returned: two steps, no file
C25_Witness ==
    /\ run.pc = "done"
    /\ C25_StepFailed
    /\ run.agents = << "research", "use_cases" >>
    /\ run.files = {}


----------------------------------------------------------------------------
(* C26: generate_proposal lets no exception out: every call returns a      *)
(* result whose status is "success" or "error". A "success" result is      *)
(* returned only after the four agent steps completed and both files were  *)
(* written; an "error" result carries the error_type "validation", "api"   *)
(* or "unexpected" and no file paths.                                      *)

C26_BothFiles == { "consolidated_file", "json_file" }

C26_Success(r) ==
    /\ r.agents = C25_Order
    /\ r.files = C26_BothFiles
    /\ r.result.paths = C26_BothFiles
    /\ r.result.error_type = ""

C26_Error(r) ==
    /\ r.result.error_type \in { "validation", "api", "unexpected" }
    /\ r.result.paths = {}

C26_Returned(r) ==
    /\ r.result.status \in { "success", "error" }
    /\ r.result.status = "success" => C26_Success(r)
    /\ r.result.status = "error" => C26_Error(r)

C26_AlwaysAResult ==
    /\ run.pc = "done" => C26_Returned(run)
    /\ run.pc # "done" => run.result.status = "none"

\* the JSON file could not be written after the consolidated report was:
\* an "error" result of type "unexpected" that names no file
C26_Witness ==
    /\ run.pc = "done"
    /\ run.result.status = "error"
    /\ run.result.error_type = "unexpected"
    /\ run.agents = C25_Order
    /\ run.files = { "consolidated_file" }
    /\ run.result.paths = {}

\* a "success" result with both files
C26_Succeeded ==
    /\ run.pc = "done"
    /\ run.result.status = "success"
    /\ C26_Success(run)


----------------------------------------------------------------------------
(* C27: when the company name or the industry fails input validation (the  *)
(* argument is empty or no string, the trimmed company name is shorter     *)
(* than 2 or longer than 100 characters or the name holds a forbidden      *)
(* character, the industry is not in the fixed list), generate_proposal    *)
(* returns status "error" with error_type "validation", invokes no agent   *)
(* and writes no file.                                                     *)

C27_Empty(argument) == argument.type # "str" \/ argument.value = <<>>

C27_BadCompany(company) ==
    \/ C27_Empty(company)
    \/ Len(Strip(company.value)) < 2
    \/ Len(Strip(company.value)) > 100
    \/ \E i \in 1..Len(company.value) : company.value[i] \in DangerousChars

C27_BadIndustry(industry) ==
    C27_Empty(industry) \/ industry.value \notin ValidIndustries

C27_Rejected(r) ==
    /\ r.pc = "done"
    /\ r.result.status = "error"
    /\ r.result.error_type = "validation"
    /\ r.result.paths = {}
    /\ r.agents = <<>>
    /\ r.files = {}

C27_InvalidInputRejected ==
    run.pc # "idle" /\ (C27_BadCompany(run.company) \/ C27_BadIndustry(run.industry)) =>
        C27_Rejected(run)

\* a company name that passes and an industry that is not in the list
C27_Witness ==
    /\ ~C27_BadCompany(run.company)
    /\ ~C27_Empty(run.industry)
    /\ C27_BadIndustry(run.industry)
    /\ C27_Rejected(run)

\* a company name with a forbidden character and a listed industry
C27_Forbidden ==
    /\ ~C27_BadIndustry(run.industry)
    /\ Len(Strip(run.company.value)) \in 2..100
    /\ C27_BadCompany(run.company)
    /\ C27_Rejected(run)


----------------------------------------------------------------------------
(* C28: a function wrapped with retry_on_failure(max_retries = n), n >= 0, *)
(* is invoked at most n + 1 times per call. The wrapper returns at the     *)
(* first invocation that succeeds and invokes nothing after it; when all   *)
(* n + 1 invocations fail with an APIError or a requests exception it      *)
(* raises the exception of the last one. It sleeps between attempts only:  *)
(* n sleeps when every attempt failed, none after the last failure.        *)

\* the claim's failures that are retried
C28_ApiFailure(e) ==
    e.class \in { "APIError", "RequestException", "Timeout", "ConnectionError" }

\* the k-th invocation failed with a failure that is retried
C28_FailedAt(w, k) ==
    w.invocations[k].left.raised /\ C28_ApiFailure(w.invocations[k].left.exception)

C28_AllFailed(w) ==
    /\ Len(w.invocations) = w.max_retries + 1
    /\ \A k \in 1..Len(w.invocations) : C28_FailedAt(w, k)

\* at most n + 1 invocations, each after a retried failure of the one
\* before and a sleep
C28_Attempts(w) ==
    /\ Len(w.invocations) <= w.max_retries + 1
    /\ Len(w.sleeps) <= w.max_retries
    /\ \A k \in 1..(Len(w.invocations) - 1) : C28_FailedAt(w, k)
    /\ Len(w.sleeps) \in { Len(w.invocations) - 1, Len(w.invocations) }
    /\ Len(w.sleeps) = Len(w.invocations) => w.pc = "try"

\* how the call ended
C28_Ended(w) ==
    /\ Len(w.invocations) >= 1
    /\ Len(w.sleeps) = Len(w.invocations) - 1
    /\ w.result.status = "returned" <=> ~w.invocations[Len(w.invocations)].left.raised
    /\ C28_AllFailed(w) =>
          /\ w.result.status = "raised"
          /\ w.result.exception = w.invocations[w.max_retries + 1].left.exception
          /\ Len(w.sleeps) = w.max_retries

C28_Bounded ==
    /\ wrapper.pc # "idle" => C28_Attempts(wrapper)
    /\ wrapper.pc = "done" => C28_Ended(wrapper)

\* once the call has ended nothing is invoked and nothing sleeps
C28_Over ==
    wrapper.result.status # "none" =>
        wrapper'.invocations = wrapper.invocations /\ wrapper'.sleeps = wrapper.sleeps

C28_AtMostOneMoreThanRetries == []C28_Bounded /\ [][C28_Over]_vars

\* max_retries = 2 and three failed invocations: two sleeps, of 1 and 2
\* seconds, and the third invocation's exception raised
C28_Witness ==
    /\ wrapper.pc = "done"
    /\ wrapper.max_retries = 2
    /\ C28_AllFailed(wrapper)
    /\ wrapper.sleeps = << 1, 2 >>
    /\ wrapper.result.status = "raised"
    /\ wrapper.result.exception.of = 3

\* max_retries = 2 and a success at the second invocation: one sleep
C28_SecondSucceeds ==
    /\ wrapper.pc = "done"
    /\ wrapper.max_retries = 2
    /\ Len(wrapper.invocations) = 2
    /\ wrapper.result.status = "returned"
    /\ wrapper.sleeps = << 1 >>

\* max_retries = 0: one invocation and no sleep
C28_NoRetry ==
    /\ wrapper.pc = "done"
    /\ wrapper.max_retries = 0
    /\ C28_AllFailed(wrapper)
    /\ wrapper.sleeps = <<>>
    /\ wrapper.result.status = "raised"


----------------------------------------------------------------------------
(* C29: when a function wrapped with retry_on_failure raises an exception  *)
(* that is neither an APIError nor a requests exception, the wrapper       *)
(* raises that same exception at once: no invocation and no sleep follows, *)
(* whatever number of retries remain.                                      *)

\* the k-th invocation failed with a failure that is not retried
C29_OtherFailureAt(w, k) ==
    w.invocations[k].left.raised /\ ~C28_ApiFailure(w.invocations[k].left.exception)

\* the call ended with the k-th invocation, by its exception
C29_EndedBy(w, k) ==
    /\ k = Len(w.invocations)
    /\ Len(w.sleeps) = k - 1
    /\ w.pc = "done"
    /\ w.result.status = "raised"
    /\ w.result.exception = w.invocations[k].left.exception

C29_OtherFailuresNotRetried ==
    \A k \in 1..Len(wrapper.invocations) :
        C29_OtherFailureAt(wrapper, k) => C29_EndedBy(wrapper, k)

\* max_retries = 2 and a ValueError at the first invocation: it is raised
\* with both retries left
C29_Witness ==
    /\ wrapper.max_retries = 2
    /\ ~wrapper.handled
    /\ Len(wrapper.invocations) = 1
    /\ C29_OtherFailureAt(wrapper, 1)
    /\ C29_EndedBy(wrapper, 1)
    /\ wrapper.result.exception = NewException("ValueError", 1, "func")

\* the same after a retried failure: one sleep before, none after
C29_AfterARetry ==
    /\ wrapper.max_retries = 2
    /\ Len(wrapper.invocations) = 2
    /\ C29_OtherFailureAt(wrapper, 2)
    /\ C29_EndedBy(wrapper, 2)
    /\ wrapper.sleeps = << 1 >>


----------------------------------------------------------------------------
(* C30: when a function wrapped with handle_api_errors fails with an       *)
(* API-level failure, a requests exception or an APIError the function     *)
(* raised itself, the exception that leaves the wrapper is an APIError, so *)
(* that an enclosing retry_on_failure retries it; any other failure leaves *)
(* the wrapper as a SystemError that is not an APIError. The wrapper has   *)
(* no clause for APIError: `except Exception` turns an APIError of the     *)
(* function into a plain SystemError, which is not retried.                *)

\* what the claim says leaves handle_api_errors for a failure of the function
C30_Leaves(e) == IF C28_ApiFailure(e) THEN "APIError" ELSE "SystemError"

C30_Translated(i) ==
    i.func.raised =>
        /\ i.left.raised
        /\ i.left.exception.class = C30_Leaves(i.func.exception)

C30_ApiFailuresLeaveAsAPIError ==
    wrapper.handled =>
        \A k \in 1..Len(wrapper.invocations) : C30_Translated(wrapper.invocations[k])

\* a requests exception of the function leaves as an APIError and is retried
C30_Reached ==
    /\ wrapper.handled
    /\ wrapper.max_retries = 2
    /\ Len(wrapper.invocations) = 2
    /\ wrapper.invocations[1].func.exception.class = "Timeout"
    /\ wrapper.invocations[1].left.exception.class = "APIError"
    /\ wrapper.sleeps = << 1 >>

\* an APIError of the function leaves as a SystemError and ends the call
\* with both retries left
C30_NotRetried ==
    /\ wrapper.handled
    /\ wrapper.max_retries = 2
    /\ Len(wrapper.invocations) = 1
    /\ wrapper.invocations[1].func.exception.class = "APIError"
    /\ wrapper.pc = "done"
    /\ wrapper.result.status = "raised"
    /\ wrapper.result.exception.class = "SystemError"
    /\ wrapper.sleeps = <<>>

\* but for an APIError of the function the claim holds
C30_ExceptOwnAPIError ==
    wrapper.handled =>
        \A k \in 1..Len(wrapper.invocations) :
            wrapper.invocations[k].func.exception.class # "APIError" =>
                C30_Translated(wrapper.invocations[k])

====
